---- MODULE Spec2Model ----
(***************************************************************************)
(* A model of the my-canvas drawing engine: the quadtree SpatialIndex, the *)
(* ElementManager (scene store), the Renderer's dirty bookkeeping, the      *)
(* InteractionManager state machine and the CanvasEngine that wires them.   *)
(*                                                                         *)
(* Shapes are mutable objects shared by reference.  The model keeps them in *)
(* a heap, objs, indexed by object reference 1..Len(objs); the scene store, *)
(* the quadtree leaves and the selected/dragged slots hold references.  The *)
(* reference 0 stands for null.  An optional point or record is a sequence  *)
(* of length 0 (null) or 1.                                                 *)
(*                                                                         *)
(* Coordinates are integers.  All arithmetic of the modelled code on them   *)
(* (sums, differences, halving the root down to depth 5, comparisons) is    *)
(* exact in IEEE doubles, so integer arithmetic models it faithfully.       *)
(***************************************************************************)
EXTENDS Integers, Sequences, FiniteSets, TLC

(***************************************************************************)
(* Program constants                                                       *)
(***************************************************************************)
maxElements == 10
maxDepth == 5
RootX == -10000
RootY == -10000
RootWidth == 20000
RootHeight == 20000
MinRectSize == 5
StrokeWidth == 2
RegionMargin == 2
CanvasWidth == 800
CanvasHeight == 600

(***************************************************************************)
(* Bounds of the model                                                     *)
(***************************************************************************)
\* shapes created by gestures or addElement (the generated batch not counted)
MaxShapes == 2
\* elements added by one generateRandomElements call
FillCount == 10
\* generateRandomElements calls
MaxBatches == 1
\* points of a freehand gesture (pointer-down point included)
MaxPathPts == 3
\* dirty regions queued between two ticks
MaxQueue == 3
\* shapes drawn by gestures where the three modes are explored
MaxDrawn == 1
\* host-made shapes beside a generated batch
MaxBeside == 1

\* wheel and pan-move events handled
MaxViewSteps == 3
\* pan-move events handled where frames are painted
MaxPans == 1

Null == 0

Pt(px, py) == [x |-> px, y |-> py]
Box(bx, by, bw, bh) == [x |-> bx, y |-> by, width |-> bw, height |-> bh]

Min2(a, b) == IF a < b THEN a ELSE b
Max2(a, b) == IF a > b THEN a ELSE b
Abs(a) == IF a < 0 THEN -a ELSE a

(***************************************************************************)
(* Geometry kernel                                                         *)
(***************************************************************************)
pointInRect(point, rect) ==
    /\ point.x >= rect.x
    /\ point.x <= rect.x + rect.width
    /\ point.y >= rect.y
    /\ point.y <= rect.y + rect.height

\* a variant of rectsIntersect for open rectangles: touching is not meeting
rectsOverlap(a, b) ==
    ~ ( \/ a.x + a.width <= b.x
        \/ b.x + b.width <= a.x
        \/ a.y + a.height <= b.y
        \/ b.y + b.height <= a.y )

rectsIntersect(a, b) ==
    ~ ( \/ a.x + a.width < b.x
        \/ b.x + b.width < a.x
        \/ a.y + a.height < b.y
        \/ b.y + b.height < a.y )

\* pointToLineDistance(point, lineStart, lineEnd) <= tol, decided exactly:
\* the code clamps the projection parameter dot/lenSq to [0,1] (and takes
\* the start point when lenSq = 0); inside the segment the squared distance
\* is cross^2 / lenSq.
pointToLineWithin(point, lineStart, lineEnd, tol) ==
    LET A == point.x - lineStart.x
        B == point.y - lineStart.y
        C == lineEnd.x - lineStart.x
        D == lineEnd.y - lineStart.y
        dot == A * C + B * D
        lenSq == C * C + D * D
        cross == A * D - B * C
        ex == point.x - lineEnd.x
        ey == point.y - lineEnd.y
    IN  IF lenSq = 0 \/ dot < 0 THEN A * A + B * B <= tol * tol
        ELSE IF dot > lenSq THEN ex * ex + ey * ey <= tol * tol
        ELSE cross * cross <= tol * tol * lenSq

\* The numbers of a transform, and of the points and boxes it is applied to,
\* are exact fractions n/d in lowest terms with d > 0 (the code computes
\* them in floating point).
RECURSIVE Gcd(_, _)
Gcd(a, b) == IF b = 0 THEN a ELSE Gcd(b, a % b)
Rat(n, d) ==
    LET s == IF d < 0 THEN -1 ELSE 1
        g == Gcd(Abs(n), Abs(d))
    IN  [n |-> (s * n) \div g, d |-> (s * d) \div g]
RInt(i) == [n |-> i, d |-> 1]
RAdd(a, b) ==
    LET g == Gcd(a.d, b.d)
    IN  Rat(a.n * (b.d \div g) + b.n * (a.d \div g), (a.d \div g) * b.d)
RSub(a, b) == RAdd(a, [n |-> -b.n, d |-> b.d])
RMul(a, b) ==
    LET x == Rat(a.n, b.d)
        y == Rat(b.n, a.d)
    IN  Rat(x.n * y.n, x.d * y.d)
RDiv(a, b) == RMul(a, Rat(b.d, b.n))
RLess(a, b) == a.n * b.d < b.n * a.d
RMin(a, b) == IF RLess(b, a) THEN b ELSE a
RMax(a, b) == IF RLess(a, b) THEN b ELSE a
RPt(p) == Pt(RInt(p.x), RInt(p.y))
RBox(b) == Box(RInt(b.x), RInt(b.y), RInt(b.width), RInt(b.height))
\* Shapes, pointer positions and regions are kept on the whole-number grid:
\* where they are computed through a transform, that transform has unit
\* scale and a whole translation, and Whole is exact.
Whole(r) == r.n \div r.d
WholePt(p) == Pt(Whole(p.x), Whole(p.y))
WholeBox(b) == Box(Whole(b.x), Whole(b.y), Whole(b.width), Whole(b.height))

applyTransform(point, t) ==
    Pt(RAdd(RMul(point.x, t.scaleX), t.translateX),
       RAdd(RMul(point.y, t.scaleY), t.translateY))

\* a variant of applyInverseTransform that divides before it subtracts
InverseDivideFirst(point, t) ==
    Pt(RSub(RDiv(point.x, t.scaleX), t.translateX),
       RSub(RDiv(point.y, t.scaleY), t.translateY))

applyInverseTransform(point, t) ==
    Pt(RDiv(RSub(point.x, t.translateX), t.scaleX),
       RDiv(RSub(point.y, t.translateY), t.scaleY))

transformBounds(bounds, t) ==
    LET topLeft == applyTransform(Pt(bounds.x, bounds.y), t)
        bottomRight == applyTransform(Pt(RAdd(bounds.x, bounds.width),
                                         RAdd(bounds.y, bounds.height)), t)
    IN  Box(topLeft.x, topLeft.y, RSub(bottomRight.x, topLeft.x),
            RSub(bottomRight.y, topLeft.y))

(***************************************************************************)
(* Shapes.  A shape object is a record                                     *)
(*   id, type, x, y, den, width, height, points, selected.                 *)
(* For a rectangle x, y are its origin and den = 1.  For a path the code    *)
(* stores the mean of the points in x, y; the model stores the numerators  *)
(* x * den, y * den with den the number of points, which keeps it exact.   *)
(***************************************************************************)
RECURSIVE SumX(_), SumY(_)
SumX(points) == IF points = <<>> THEN 0 ELSE Head(points).x + SumX(Tail(points))
SumY(points) == IF points = <<>> THEN 0 ELSE Head(points).y + SumY(Tail(points))

NewRectangle(id, x, y, width, height) ==
    [id |-> id, type |-> "rectangle", x |-> x, y |-> y, den |-> 1,
     width |-> width, height |-> height, points |-> <<>>, selected |-> FALSE]

NewPath(id, points) ==
    [id |-> id, type |-> "path", x |-> SumX(points), y |-> SumY(points),
     den |-> Len(points), width |-> 0, height |-> 0, points |-> points,
     selected |-> FALSE]

SeqMinX(points) == CHOOSE v \in {points[i].x : i \in 1..Len(points)} :
                       \A i \in 1..Len(points) : v <= points[i].x
SeqMaxX(points) == CHOOSE v \in {points[i].x : i \in 1..Len(points)} :
                       \A i \in 1..Len(points) : v >= points[i].x
SeqMinY(points) == CHOOSE v \in {points[i].y : i \in 1..Len(points)} :
                       \A i \in 1..Len(points) : v <= points[i].y
SeqMaxY(points) == CHOOSE v \in {points[i].y : i \in 1..Len(points)} :
                       \A i \in 1..Len(points) : v >= points[i].y

\* Rectangle.getBoundingBox / Path.getBoundingBox
getBoundingBox(el) ==
    IF el.type = "rectangle" THEN Box(el.x, el.y, el.width, el.height)
    ELSE IF el.points = <<>> THEN Box(0, 0, 0, 0)
    ELSE LET padding == StrokeWidth \div 2
         IN  Box(SeqMinX(el.points) - padding, SeqMinY(el.points) - padding,
                 SeqMaxX(el.points) - SeqMinX(el.points) + padding * 2,
                 SeqMaxY(el.points) - SeqMinY(el.points) + padding * 2)

\* Rectangle.containsPoint / Path.containsPoint
containsPoint(el, point) ==
    IF el.type = "rectangle"
    THEN /\ point.x >= el.x
         /\ point.x <= el.x + el.width
         /\ point.y >= el.y
         /\ point.y <= el.y + el.height
    ELSE \E i \in 1..(Len(el.points) - 1) :
             pointToLineWithin(point, el.points[i], el.points[i + 1],
                               StrokeWidth * 2)

\* the translation a drag move applies to a shape (handleMouseMove)
TranslatePoints(points, deltaX, deltaY) ==
    [i \in 1..Len(points) |-> Pt(points[i].x + deltaX, points[i].y + deltaY)]

MoveShape(el, deltaX, deltaY) ==
    [el EXCEPT !.x = @ + deltaX * el.den,
               !.y = @ + deltaY * el.den,
               !.points = IF el.type = "path"
                          THEN TranslatePoints(@, deltaX, deltaY) ELSE @]

(***************************************************************************)
(* Quadtree.  A node is [bounds, depth, elements, children]; children is   *)
(* <<>> for null and a sequence of four nodes otherwise.  O is the heap,   *)
(* read for the current bounding boxes of the referenced shapes.           *)
(***************************************************************************)
NewNode(bounds, depth) ==
    [bounds |-> bounds, depth |-> depth, elements |-> <<>>, children |-> <<>>]

\* the four children split() creates; the halves are exact down to maxDepth
split(node) ==
    LET x == node.bounds.x
        y == node.bounds.y
        halfWidth == node.bounds.width \div 2
        halfHeight == node.bounds.height \div 2
        newDepth == node.depth + 1
    IN  << NewNode(Box(x, y, halfWidth, halfHeight), newDepth),
           NewNode(Box(x + halfWidth, y, halfWidth, halfHeight), newDepth),
           NewNode(Box(x, y + halfHeight, halfWidth, halfHeight), newDepth),
           NewNode(Box(x + halfWidth, y + halfHeight, halfWidth, halfHeight),
                   newDepth) >>

\* a variant of MustSplit that splits one level deeper
MustSplitDeeper(count, depth) == count > maxElements /\ depth < maxDepth + 1

\* a variant of MustSplit that lets a leaf hold one shape more
MustSplitLate(count, depth) == count > maxElements + 1 /\ depth < maxDepth

\* the leaf's list is over capacity and the leaf may still split
MustSplit(count, depth) == count > maxElements /\ depth < maxDepth

\* a variant of InsertRejects that rejects nothing
InsertRejectsNothing(nodeBounds, elementBounds) == FALSE

\* insert's first test: the element does not meet the node, nothing is done
InsertRejects(nodeBounds, elementBounds) ==
    ~rectsIntersect(nodeBounds, elementBounds)

RECURSIVE NodeInsert(_, _, _), NodeInsertAll(_, _, _)
NodeInsert(node, e, O) ==
    IF InsertRejects(node.bounds, getBoundingBox(O[e])) THEN node
    ELSE IF node.children # <<>>
    THEN [node EXCEPT !.children = << NodeInsert(node.children[1], e, O),
                                      NodeInsert(node.children[2], e, O),
                                      NodeInsert(node.children[3], e, O),
                                      NodeInsert(node.children[4], e, O) >>]
    ELSE LET els == Append(node.elements, e)
         IN  IF MustSplit(Len(els), node.depth)
             THEN LET kids == split(node)
                  IN  [node EXCEPT
                         !.elements = <<>>,
                         !.children = << NodeInsertAll(kids[1], els, O),
                                         NodeInsertAll(kids[2], els, O),
                                         NodeInsertAll(kids[3], els, O),
                                         NodeInsertAll(kids[4], els, O) >>]
             ELSE [node EXCEPT !.elements = els]

\* redistribution: every element, in list order, offered to the child
NodeInsertAll(node, els, O) ==
    IF els = <<>> THEN node
    ELSE NodeInsert(NodeInsertAll(node, SubSeq(els, 1, Len(els) - 1), O),
                    els[Len(els)], O)

\* a variant of DedupById without the `seen` set
KeepAll(els, seen, O) == els

\* the per-call `seen` set: keep the first occurrence of every id
RECURSIVE DedupById(_, _, _)
DedupById(els, seen, O) ==
    IF els = <<>> THEN <<>>
    ELSE IF O[Head(els)].id \in seen THEN DedupById(Tail(els), seen, O)
    ELSE <<Head(els)>> \o DedupById(Tail(els), seen \cup {O[Head(els)].id}, O)

\* the leaf's filter of query: the shape's current bounds meet the region
LeafMatches(bounds, el) == rectsIntersect(bounds, getBoundingBox(el))

RECURSIVE SelectMatching(_, _, _)
SelectMatching(els, bounds, O) ==
    IF els = <<>> THEN <<>>
    ELSE IF LeafMatches(bounds, O[Head(els)])
         THEN <<Head(els)>> \o SelectMatching(Tail(els), bounds, O)
         ELSE SelectMatching(Tail(els), bounds, O)

RECURSIVE NodeQuery(_, _, _)
NodeQuery(node, bounds, O) ==
    IF ~rectsIntersect(node.bounds, bounds) THEN <<>>
    ELSE IF node.children # <<>>
    THEN DedupById(NodeQuery(node.children[1], bounds, O)
                   \o NodeQuery(node.children[2], bounds, O)
                   \o NodeQuery(node.children[3], bounds, O)
                   \o NodeQuery(node.children[4], bounds, O), {}, O)
    ELSE DedupById(SelectMatching(node.elements, bounds, O), {}, O)

\* the last element of the list whose hit test contains the point, or Null
RECURSIVE LastHit(_, _, _, _)
LastHit(els, i, point, O) ==
    IF i = 0 THEN Null
    ELSE IF containsPoint(O[els[i]], point) THEN els[i]
    ELSE LastHit(els, i - 1, point, O)

RECURSIVE NodeQueryPoint(_, _, _), ChildQueryPoint(_, _, _, _)
NodeQueryPoint(node, point, O) ==
    IF ~pointInRect(point, node.bounds) THEN Null
    ELSE IF node.children # <<>>
    THEN ChildQueryPoint(node, Len(node.children), point, O)
    ELSE LastHit(node.elements, Len(node.elements), point, O)

\* children are visited from the last to the first; the first hit wins
ChildQueryPoint(node, i, point, O) ==
    IF i = 0 THEN Null
    ELSE LET result == NodeQueryPoint(node.children[i], point, O)
         IN  IF result # Null THEN result
             ELSE ChildQueryPoint(node, i - 1, point, O)

\* indexOf + splice: drop the first occurrence of e
RECURSIVE RemoveFirst(_, _)
RemoveFirst(els, e) ==
    IF els = <<>> THEN <<>>
    ELSE IF Head(els) = e THEN Tail(els)
    ELSE <<Head(els)>> \o RemoveFirst(Tail(els), e)

\* the bounds remove() descends by: the shape's bounding box when it is called
RemoveBounds(el) == getBoundingBox(el)

RECURSIVE NodeRemove(_, _, _)
NodeRemove(node, e, O) ==
    IF ~rectsIntersect(node.bounds, RemoveBounds(O[e])) THEN node
    ELSE IF node.children # <<>>
    THEN [node EXCEPT !.children = << NodeRemove(node.children[1], e, O),
                                      NodeRemove(node.children[2], e, O),
                                      NodeRemove(node.children[3], e, O),
                                      NodeRemove(node.children[4], e, O) >>]
    ELSE [node EXCEPT !.elements = RemoveFirst(@, e)]

\* clear(): the node keeps its bounds and depth, loses its list and (after
\* they have been cleared) its children
NodeClear(node) == [node EXCEPT !.elements = <<>>, !.children = <<>>]

\* SpatialIndex
RootBounds == Box(RootX, RootY, RootWidth, RootHeight)
\* every reference held anywhere in the tree
RECURSIVE TreeRefs(_)
TreeRefs(node) ==
    IF node.children = <<>> THEN {node.elements[i] : i \in 1..Len(node.elements)}
    ELSE TreeRefs(node.children[1]) \cup TreeRefs(node.children[2])
             \cup TreeRefs(node.children[3]) \cup TreeRefs(node.children[4])

\* a variant of IndexRemove that turns a tree left without references into
\* a single leaf
IndexRemoveMerging(root, e, O) ==
    IF TreeRefs(NodeRemove(root, e, O)) = {}
    THEN NodeClear(NodeRemove(root, e, O))
    ELSE NodeRemove(root, e, O)

IndexInsert(root, e, O) == NodeInsert(root, e, O)
IndexRemove(root, e, O) == NodeRemove(root, e, O)
IndexUpdate(root, e, O) == IndexInsert(IndexRemove(root, e, O), e, O)
IndexQuery(root, bounds, O) == NodeQuery(root, bounds, O)
IndexQueryPoint(root, point, O) == NodeQueryPoint(root, point, O)
IndexClear(root) == NodeClear(root)

\* a variant of rebuild that keeps the tree it finds
RebuildKeep(old, bounds, els, O) == old

\* rebuild(bounds, elements): the root `old` is replaced by a new node and
\* every element is inserted, in the order given
rebuild(old, bounds, els, O) == NodeInsertAll(NewNode(bounds, 0), els, O)

(***************************************************************************)
(* State                                                                   *)
(***************************************************************************)
VARIABLES
    \* the heap of shape objects, by reference
    objs,
    \* ElementManager: the id -> shape map, the draw order, and the index
    elements, zIndexOrder, root,
    \* InteractionManager (mode and state.mode are always assigned together)
    mode, isActive, startPoint, currentPoint, selectedElement,
    draggedElement, dragOffset, currentPathPoints,
    \* CanvasEngine; `transform` is the value of the object the engine's field
    \* refers to, which panning mutates in place and zooming replaces
    tempPathPoints, tempRectangle, isPanning, panStartPoint, transform,
    \* Renderer
    needsFullRedraw, dirtyRegions,
    \* the value of the transform object the Renderer refers to, the value of
    \* the one the InteractionManager refers to, and whether the latter is
    \* the engine's current object
    rendererTransform, imTransform, imShared,
    \* history: the wheel and pan-move events handled
    steps,
    \* InteractionManager: the callback registered for each notification kind;
    \* history: the host function last registered through the engine, per kind
    callbacks, registered,
    \* history: the mouse buttons that are down over the canvas
    held,
    \* a direct call of a utility function: its arguments and what the calls
    \* made so far have returned
    args, result,
    \* observations of the last handled call: what it was, the notifications
    \* the InteractionManager issued, and what the tick painted
    last, notes, painted,
    \* history: the current gesture, the shapes removed from the scene, the
    \* shapes generated in batches
    gest, removed, fillers, batches

sceneVars == <<objs, elements, zIndexOrder, root>>
imVars == <<mode, isActive, startPoint, currentPoint, selectedElement,
            draggedElement, dragOffset, currentPathPoints>>
engineVars == <<tempPathPoints, tempRectangle, isPanning, panStartPoint,
                transform>>
rendererVars == <<needsFullRedraw, dirtyRegions>>
obsVars == <<last, notes, painted>>
histVars == <<gest, removed, fillers, batches>>
viewVars == <<rendererTransform, imTransform, imShared, steps>>
callVars == <<args, result>>
regVars == <<callbacks, registered>>
engineState == <<sceneVars, imVars, engineVars, rendererVars, obsVars,
                 histVars, viewVars, regVars, held>>
vars == <<engineState, callVars>>

Modes == {"select", "pen", "rectangle"}

\* the pointer positions the environment produces, relative to the canvas
Points == {Pt(0, 0), Pt(10, 10)}
\* a pointer-up may also come at these
UpPoints == Points \cup {Pt(2, 2), Pt(10, 3)}
\* the geometry generateRandomElements draws for a batch
FillerBoxes == {Box(100, 100, 20, 20)}

(***************************************************************************)
(* Callbacks.  A callback is the sequence of what it does when invoked: the *)
(* engine's own handling of the notification, and calls of host functions.  *)
(* <<>> stands for a slot that is undefined.                                *)
(***************************************************************************)
NoteKinds == {"elementSelected", "elementMoved", "pathDrawing",
              "pathComplete", "rectangleDrawing", "rectangleComplete"}
\* the kinds the engine lets a host register for
HostKinds == {"elementSelected", "pathComplete", "rectangleComplete"}
\* host functions: the Canvas component's (its onElementSelected prop, its
\* path factory, its rectangle factory) and one other per kind
CanvasCallback == 1
OtherCallback == CanvasCallback + 1
HostCallbacks == {CanvasCallback, OtherCallback}

EngineStep == [run |-> "engine", host |-> Null]
HostStep(h) == [run |-> "host", host |-> h]

\* a variant of setCallbacks that replaces the whole table
SetCallbacksReplace(slots, given) ==
    [k \in DOMAIN slots |-> IF k \in DOMAIN given THEN given[k] ELSE <<>>]

\* InteractionManager.setCallbacks(given): the slots afterwards; `given`
\* holds the kinds whose property is not undefined
setCallbacks(slots, given) ==
    [k \in DOMAIN slots |-> IF k \in DOMAIN given THEN given[k] ELSE slots[k]]

\* setupInteractionCallbacks: the six callbacks of the engine
EngineCallbacks == [k \in NoteKinds |-> <<EngineStep>>]

\* the callback onElementSelected / onPathComplete / onRectangleComplete
\* build around a host function: the engine's handling, then the host's
Wrapped(h) == <<EngineStep, HostStep(h)>>

\* CanvasEngine.onElementSelected / onPathComplete / onRectangleComplete
RegisterOn(slots, kind, h) ==
    setCallbacks(slots, [k \in {kind} |-> Wrapped(h)])

\* the slots once the Canvas component has mounted
MountedCallbacks ==
    RegisterOn(RegisterOn(RegisterOn(setCallbacks([k \in NoteKinds |-> <<>>],
                                                  EngineCallbacks),
                                     "elementSelected", CanvasCallback),
                          "pathComplete", CanvasCallback),
               "rectangleComplete", CanvasCallback)
MountedRegistered == [k \in HostKinds |-> CanvasCallback]

\* what invoking a callback does: whether the engine's handling runs, whether
\* the host function h runs, and for every host function run, in order,
\* whether the engine's handling had run before it
RunsEngine(cb) == \E i \in 1..Len(cb) : cb[i].run = "engine"
RunsHost(cb, h) == \E i \in 1..Len(cb) : cb[i] = HostStep(h)
Heard(cb) ==
    LET at == SelectSeq([i \in 1..Len(cb) |-> i],
                        LAMBDA i : cb[i].run = "host")
    IN  [n \in 1..Len(at) |->
            [host |-> cb[at[n]].host,
             engineDone |-> \E j \in 1..(at[n] - 1) : cb[j].run = "engine"]]

\* a notification: its kind and arguments, the host functions it reached,
\* and (for "shape moved") what the callback finds when it reads the shape
\* and queries the index
Note(kind, el, pts, box) ==
    [kind |-> kind, el |-> el, pts |-> pts, box |-> box, view |-> <<>>,
     heard |-> Heard(callbacks[kind])]
\* the shape's bounding box and query(that box) at the moment of the callback
CallbackView(O, rt, el) ==
    [bounds |-> getBoundingBox(O[el]),
     found |-> \E i \in 1..Len(IndexQuery(rt, getBoundingBox(O[el]), O)) :
                   IndexQuery(rt, getBoundingBox(O[el]), O)[i] = el]
\* the last call: its name, its boolean result, and (for setMode) the shape
\* that was selected when it was made
Last(op, ret) == [op |-> op, ret |-> ret, sel |-> Null]
\* the gesture in progress: the mode at its pointer-down, whether the mode has
\* stayed since, the canvas points of the down and of the moves (PEN) or of
\* the down and of the last move (the other modes), the canvas point of the
\* up, the shape grabbed and its geometry when grabbed
Gesture(m, pts, el, geom0) ==
    [mode |-> m, valid |-> TRUE, pts |-> pts, up |-> <<>>, el |-> el,
     geom0 |-> geom0]
\* for a pan: the client points of the pointer-down and of the moves, and the
\* transform when it began; for a wheel event: the cursor and the transform
\* before the zoom
NoGesture == [mode |-> "none", valid |-> FALSE, pts |-> <<>>, up |-> <<>>,
              el |-> Null, geom0 |-> <<>>]

\* the gesture record is kept while a gesture is in progress and in the state
\* its pointer-up leaves; any later call drops it
EndGesture(g) == IF isActive THEN g ELSE NoGesture

IdentityTransform == [scaleX |-> RInt(1), scaleY |-> RInt(1),
                      translateX |-> RInt(0), translateY |-> RInt(0)]

\* a variant of getViewportBounds that reads no transform
ViewportUnpanned(t) == Box(RInt(0), RInt(0), RInt(CanvasWidth), RInt(CanvasHeight))

getViewportBounds(t) ==
    Box(RDiv(RSub(RInt(0), t.translateX), t.scaleX),
        RDiv(RSub(RInt(0), t.translateY), t.scaleY),
        RDiv(RInt(CanvasWidth), t.scaleX), RDiv(RInt(CanvasHeight), t.scaleY))

\* a variant of SetTransformRegion that queues an empty region
SetTransformNoRegion(t) == Box(0, 0, 0, 0)

\* Renderer.setTransform(t): the region markDirtyRegion queues for the
\* viewport
SetTransformRegion(t) == WholeBox(transformBounds(getViewportBounds(t), t))

\* the state after the Canvas component has mounted: the engine constructed,
\* the factory callbacks registered, setMode(mode) and resize() called
Constructed ==
    /\ objs = <<>>
    /\ elements = <<>>
    /\ zIndexOrder = <<>>
    /\ root = NewNode(RootBounds, 0)
    /\ mode = "select"
    /\ isActive = FALSE
    /\ startPoint = <<>>
    /\ currentPoint = <<>>
    /\ selectedElement = Null
    /\ draggedElement = Null
    /\ dragOffset = <<>>
    /\ currentPathPoints = <<>>
    /\ tempPathPoints = <<>>
    /\ tempRectangle = <<>>
    /\ isPanning = FALSE
    /\ panStartPoint = <<>>
    /\ transform = IdentityTransform
    /\ rendererTransform = IdentityTransform
    /\ imTransform = IdentityTransform
    /\ imShared = TRUE
    /\ steps = 0
    /\ needsFullRedraw = TRUE
    /\ dirtyRegions = <<SetTransformRegion(IdentityTransform)>>
    /\ last = Last("init", FALSE)
    /\ notes = <<>>
    /\ painted = <<>>
    /\ gest = NoGesture
    /\ removed = {}
    /\ fillers = {}
    /\ batches = 0
    /\ callbacks = MountedCallbacks
    /\ registered = MountedRegistered
    /\ held = {}

Init ==
    /\ Constructed
    /\ args = <<>>
    /\ result = <<>>

(***************************************************************************)
(* ElementManager                                                          *)
(***************************************************************************)
\* getAll(): the stored shapes in draw order
GetAllOf(order, els) ==
    LET ids == SelectSeq(order, LAMBDA id : id \in DOMAIN els)
    IN  [i \in 1..Len(ids) |-> els[ids[i]]]
getAll == GetAllOf(zIndexOrder, elements)
SeqRange(s) == {s[i] : i \in 1..Len(s)}
SceneRefs == SeqRange(getAll)

\* get(id): the stored shape, or null
GetOf(els, id) == IF id \in DOMAIN els THEN els[id] ELSE Null
get(id) == GetOf(elements, id)

\* Map.set / Map.delete on the id -> reference map
MapSet(m, id, ref) == (id :> ref) @@ m
MapDelete(m, id) == [k \in DOMAIN m \ {id} |-> m[k]]

\* the order list after push(id)
OrderPush(order, id) == Append(order, id)

\* markDirtyRegion(bounds): the screen-space region queued
DirtyRegionOf(bounds, t) == WholeBox(transformBounds(RBox(bounds), t))

(***************************************************************************)
(* InteractionManager helpers                                              *)
(***************************************************************************)
screenToCanvas(p) == WholePt(applyInverseTransform(RPt(p), imTransform))

\* a variant of Marked in which the callback does not mark a full redraw
MarkedNot(kind) == needsFullRedraw

\* markDirty() in the engine's handling of a notification: the flag after a
\* callback of that kind has been invoked
Marked(kind) == needsFullRedraw \/ RunsEngine(callbacks[kind])

\* a variant of DeselectOthers that clears the flag of every shape
DeselectAll(O, keep) ==
    [r \in DOMAIN O |-> [O[r] EXCEPT !.selected = FALSE]]

\* the engine's onElementSelected callback: every scene shape other than
\* `keep` loses its selected flag
DeselectOthers(O, keep) ==
    [r \in DOMAIN O |->
        IF r \in SceneRefs /\ r # keep THEN [O[r] EXCEPT !.selected = FALSE]
        ELSE O[r]]

\* a variant of SelectedCallbackObjs in which the callback clears no flag
SelectedCallbackNone(O, keep) == O

\* the heap after the "selection changed" callback has been invoked with the
\* shape `keep`
SelectedCallbackObjs(O, keep) ==
    IF RunsEngine(callbacks["elementSelected"]) THEN DeselectOthers(O, keep)
    ELSE O

\* a variant of ClearSelectionObjs that leaves every selected flag as it is
KeepSelectionFlags(O, sel) == O

\* clearSelection(): the heap afterwards (the callback included)
ClearSelectionObjs(O, sel) ==
    SelectedCallbackObjs(
        IF sel # Null THEN [O EXCEPT ![sel].selected = FALSE] ELSE O, Null)

\* a variant of OldBounds that reads the bounding box after the translation
OldBoundsMoved(before, after) == after

\* oldBounds of handleMouseMove: the bounding box read before the shape is
\* translated
OldBounds(before, after) == before

\* a variant of DragNextStart that keeps the pointer-down point
DragKeepStart(canvasPoint, start) == start

\* the delta a drag move applies, and the start point it leaves
DragDelta(canvasPoint, start) ==
    Pt(canvasPoint.x - start.x, canvasPoint.y - start.y)
DragNextStart(canvasPoint, start) == canvasPoint

\* a variant of PathCompletes that reports a single point too
PathCompletesAny(m, points) == m = "pen" /\ Len(points) > 0

\* a variant of RectangleEnd that reports the last move's point
RectangleEndCurrent(canvasPoint, current) == current

\* a variant of RectTooSmall that rejects only when both sides are short
RectTooSmallBoth(w, h) == w < MinRectSize /\ h < MinRectSize

\* handleMouseUp: the freehand sequence is reported
PathCompletes(m, points) == m = "pen" /\ Len(points) > 1

\* handleMouseUp: the end corner reported with "rectangle complete"
RectangleEnd(canvasPoint, current) == canvasPoint

\* the Canvas component's rectangle factory: the shape to add, if any
RectTooSmall(w, h) == w < MinRectSize \/ h < MinRectSize
RectangleFromCorners(id, start, end) ==
    LET x == Min2(start.x, end.x)
        y == Min2(start.y, end.y)
        w == Abs(end.x - start.x)
        h == Abs(end.y - start.y)
    IN  IF RectTooSmall(w, h) THEN <<>>
        ELSE <<NewRectangle(id, x, y, w, h)>>

\* the Canvas component's path factory
PathFromPoints(id, points) ==
    IF Len(points) < 2 THEN <<>> ELSE <<NewPath(id, points)>>

\* the shapes a host passes to addElement: a rectangle by its box or a path
\* by its points
HostShape(id, make) ==
    IF make.type = "rectangle"
    THEN NewRectangle(id, make.box.x, make.box.y, make.box.width,
                      make.box.height)
    ELSE NewPath(id, make.points)
MakeRect(box) == [type |-> "rectangle", box |-> box, points |-> <<>>]
MakePath(points) == [type |-> "path", box |-> <<>>, points |-> points]
\* near the pointer: a square on the quadrant lines, a stroke beside them
NearShapes == {MakeRect(Box(0, 0, 10, 10)),
               MakePath(<<Pt(12, 12), Pt(22, 22)>>)}
\* beyond and across the edge of the indexed universe
FarShapes == {MakeRect(Box(10001, 0, 10, 10)),
              MakeRect(Box(9995, 9995, 10, 10))}
\* across the edge only
EdgeShapes == {MakeRect(Box(9995, 9995, 10, 10))}

\* generateId: ids are unique; the model numbers them like the references
NextId == Len(objs) + 1
UserShapes == Len(objs) - Cardinality(fillers)

(***************************************************************************)
(* CanvasEngine.addElement applied to an optional new shape (the factories *)
(* add at most one): the scene, the index and the dirty queue afterwards.   *)
(***************************************************************************)
AddElementOpt(shape) ==
    IF shape = <<>>
    THEN /\ UNCHANGED <<objs, elements, zIndexOrder, root, dirtyRegions>>
    ELSE LET el == shape[1]
             ref == Len(objs) + 1
             O == Append(objs, el)
         IN  /\ objs' = O
             /\ elements' = MapSet(elements, el.id, ref)
             /\ zIndexOrder' = OrderPush(zIndexOrder, el.id)
             /\ root' = IndexInsert(root, ref, O)
             /\ dirtyRegions' =
                    Append(dirtyRegions,
                           DirtyRegionOf(getBoundingBox(el),
                                         rendererTransform))

\* the bounds on shape creation: an event that would create a shape is only
\* produced while the model has room for it
RoomFor(shape) ==
    shape # <<>> => /\ UserShapes < MaxShapes
                    /\ Len(dirtyRegions) < MaxQueue

(***************************************************************************)
(* mousedown (left button, space not held)                                 *)
(***************************************************************************)
handleMouseDown(p) ==
    LET canvasPoint == screenToCanvas(p)
        element == IndexQueryPoint(root, canvasPoint, objs)
    IN  /\ startPoint' = <<canvasPoint>>
        /\ currentPoint' = <<canvasPoint>>
        /\ isActive' = TRUE
        /\ last' = Last("down", FALSE)
        /\ painted' = <<>>
        /\ UNCHANGED <<callVars, regVars>>
        /\ UNCHANGED viewVars
        /\ UNCHANGED <<elements, zIndexOrder, root, mode, isPanning,
                       panStartPoint, transform, dirtyRegions, removed,
                       fillers, batches>>
        /\ needsFullRedraw' = IF mode = "select" THEN Marked("elementSelected")
                              ELSE TRUE
        /\ CASE mode = "pen" ->
                  /\ currentPathPoints' = <<canvasPoint>>
                  /\ tempPathPoints' = << <<canvasPoint>> >>
                  /\ notes' = <<Note("pathDrawing", Null, <<canvasPoint>>, <<>>)>>
                  /\ gest' = Gesture("pen", <<canvasPoint>>, Null, <<>>)
                  /\ UNCHANGED <<objs, selectedElement, draggedElement,
                                 dragOffset, tempRectangle>>
             [] mode = "rectangle" ->
                  /\ tempRectangle' = <<[start |-> canvasPoint,
                                         end |-> canvasPoint]>>
                  /\ notes' = <<Note("rectangleDrawing", Null,
                                     <<canvasPoint, canvasPoint>>, <<>>)>>
                  /\ gest' = Gesture("rectangle", <<canvasPoint>>, Null, <<>>)
                  /\ UNCHANGED <<objs, selectedElement, draggedElement,
                                 dragOffset, currentPathPoints, tempPathPoints>>
             [] mode = "select" /\ element # Null ->
                  /\ selectedElement' = element
                  /\ draggedElement' = element
                  /\ objs' = SelectedCallbackObjs(
                                 [objs EXCEPT ![element].selected = TRUE],
                                 element)
                  /\ dragOffset' =
                        <<Pt(canvasPoint.x - getBoundingBox(objs[element]).x,
                             canvasPoint.y - getBoundingBox(objs[element]).y)>>
                  /\ notes' = <<Note("elementSelected", element, <<>>, <<>>)>>
                  /\ gest' = Gesture("select", <<canvasPoint>>, element,
                                      <<objs[element]>>)
                  /\ UNCHANGED <<currentPathPoints, tempPathPoints,
                                 tempRectangle>>
             [] mode = "select" /\ element = Null ->
                  /\ selectedElement' = Null
                  /\ objs' = ClearSelectionObjs(objs, selectedElement)
                  /\ notes' = <<Note("elementSelected", Null, <<>>, <<>>)>>
                  /\ gest' = Gesture("select", <<canvasPoint>>, Null, <<>>)
                  /\ UNCHANGED <<draggedElement, dragOffset, currentPathPoints,
                                 tempPathPoints, tempRectangle>>

\* mousedown with a button that starts no pan, while no pan is in progress
InteractDown(p) == ~isPanning /\ handleMouseDown(p) /\ UNCHANGED held

(***************************************************************************)
(* mousemove (not panning)                                                 *)
(***************************************************************************)
handleMouseMove(p) ==
    LET canvasPoint == screenToCanvas(p)
        el == draggedElement
        delta == DragDelta(canvasPoint, startPoint[1])
        O == [objs EXCEPT ![el] = MoveShape(@, delta.x, delta.y)]
        oldBounds == OldBounds(getBoundingBox(objs[el]), getBoundingBox(O[el]))
    IN  /\ last' = Last("move", FALSE)
        /\ painted' = <<>>
        /\ UNCHANGED <<callVars, regVars>>
        /\ UNCHANGED viewVars
        /\ UNCHANGED <<elements, zIndexOrder, mode, isActive, selectedElement,
                       draggedElement, dragOffset, isPanning, panStartPoint,
                       transform, dirtyRegions, removed, fillers, batches>>
        /\ CASE ~isActive ->
                  /\ notes' = <<>>
                  /\ gest' = NoGesture
                  /\ UNCHANGED <<objs, root, startPoint, currentPoint,
                                 currentPathPoints, tempPathPoints,
                                 tempRectangle, needsFullRedraw>>
             [] isActive /\ mode = "pen" ->
                  /\ Len(currentPathPoints) < MaxPathPts
                  /\ currentPoint' = <<canvasPoint>>
                  /\ currentPathPoints' = Append(currentPathPoints, canvasPoint)
                  /\ tempPathPoints' = <<currentPathPoints'>>
                  /\ needsFullRedraw' = TRUE
                  /\ notes' = <<Note("pathDrawing", Null, currentPathPoints',
                                     <<>>)>>
                  /\ gest' = IF gest.mode = "pen" /\ gest.valid
                             THEN [gest EXCEPT !.pts = Append(@, canvasPoint)]
                             ELSE gest
                  /\ UNCHANGED <<objs, root, startPoint, tempRectangle>>
             [] isActive /\ mode = "rectangle" ->
                  /\ currentPoint' = <<canvasPoint>>
                  /\ IF startPoint # <<>>
                     THEN /\ tempRectangle' = <<[start |-> startPoint[1],
                                                 end |-> canvasPoint]>>
                          /\ needsFullRedraw' = TRUE
                          /\ notes' = <<Note("rectangleDrawing", Null,
                                             <<startPoint[1], canvasPoint>>,
                                             <<>>)>>
                     ELSE /\ notes' = <<>>
                          /\ UNCHANGED <<tempRectangle, needsFullRedraw>>
                  /\ gest' = IF gest.mode = "rectangle" /\ gest.valid
                             THEN [gest EXCEPT !.pts = <<@[1], canvasPoint>>]
                             ELSE gest
                  /\ UNCHANGED <<objs, root, startPoint, currentPathPoints,
                                 tempPathPoints>>
             [] isActive /\ mode = "select" /\ draggedElement # Null
                         /\ startPoint # <<>> ->
                  /\ currentPoint' = <<canvasPoint>>
                  /\ objs' = O
                  /\ root' = IndexUpdate(root, el, O)
                  /\ needsFullRedraw' = TRUE
                  /\ notes' = <<[Note("elementMoved", el, <<delta>>,
                                      <<oldBounds>>)
                                    EXCEPT !.view =
                                        <<CallbackView(O, root', el)>>]>>
                  /\ startPoint' = <<DragNextStart(canvasPoint, startPoint[1])>>
                  /\ gest' = IF gest.mode = "select" /\ gest.valid
                             THEN [gest EXCEPT !.pts = <<@[1], canvasPoint>>]
                             ELSE gest
                  /\ UNCHANGED <<currentPathPoints, tempPathPoints,
                                 tempRectangle>>
             [] isActive /\ mode = "select"
                         /\ (draggedElement = Null \/ startPoint = <<>>) ->
                  /\ currentPoint' = <<canvasPoint>>
                  /\ notes' = <<>>
                  /\ gest' = IF gest.mode = "select" /\ gest.valid
                             THEN [gest EXCEPT !.pts = <<@[1], canvasPoint>>]
                             ELSE gest
                  /\ UNCHANGED <<objs, root, startPoint, currentPathPoints,
                                 tempPathPoints, tempRectangle, needsFullRedraw>>

\* mousemove while no pan is in progress
InteractMove(p) == ~isPanning /\ handleMouseMove(p) /\ UNCHANGED held

(***************************************************************************)
(* mouseup (not panning).  The engine's wrappers of onPathComplete and     *)
(* onRectangleComplete clear the preview and mark a full redraw, then run   *)
(* the Canvas component's factory, which may add one shape.                 *)
(***************************************************************************)
handleMouseUp(p) ==
    LET canvasPoint == screenToCanvas(p)
        endPoint == RectangleEnd(canvasPoint, currentPoint[1])
        \* what the Canvas component's factories add, when they are called
        newPath == IF RunsHost(callbacks["pathComplete"], CanvasCallback)
                   THEN PathFromPoints(NextId, currentPathPoints) ELSE <<>>
        newRect == IF RunsHost(callbacks["rectangleComplete"], CanvasCallback)
                   THEN RectangleFromCorners(NextId, startPoint[1], endPoint)
                   ELSE <<>>
    IN  /\ last' = Last("up", FALSE)
        /\ painted' = <<>>
        /\ UNCHANGED <<callVars, regVars>>
        /\ UNCHANGED viewVars
        /\ gest' = IF isActive THEN [gest EXCEPT !.up = <<canvasPoint>>]
                   ELSE NoGesture
        /\ UNCHANGED <<mode, startPoint, currentPoint, selectedElement,
                       isPanning, panStartPoint, transform, removed, fillers,
                       batches>>
        /\ CASE ~isActive ->
                  /\ notes' = <<>>
                  /\ UNCHANGED <<objs, elements, zIndexOrder, root, isActive,
                                 draggedElement, dragOffset, currentPathPoints,
                                 tempPathPoints, tempRectangle,
                                 needsFullRedraw, dirtyRegions>>
             [] isActive /\ PathCompletes(mode, currentPathPoints) ->
                  /\ RoomFor(newPath)
                  /\ notes' = <<Note("pathComplete", Null, currentPathPoints,
                                     <<>>)>>
                  /\ tempPathPoints' =
                         IF RunsEngine(callbacks["pathComplete"]) THEN <<>>
                         ELSE tempPathPoints
                  /\ needsFullRedraw' = Marked("pathComplete")
                  /\ AddElementOpt(newPath)
                  /\ currentPathPoints' = <<>>
                  /\ isActive' = FALSE
                  /\ draggedElement' = Null
                  /\ dragOffset' = <<>>
                  /\ UNCHANGED tempRectangle
             [] isActive /\ ~PathCompletes(mode, currentPathPoints)
                         /\ mode = "rectangle" /\ startPoint # <<>> ->
                  /\ RoomFor(newRect)
                  /\ notes' = <<Note("rectangleComplete", Null,
                                     <<startPoint[1], endPoint>>, <<>>)>>
                  /\ tempRectangle' =
                         IF RunsEngine(callbacks["rectangleComplete"]) THEN <<>>
                         ELSE tempRectangle
                  /\ needsFullRedraw' = Marked("rectangleComplete")
                  /\ AddElementOpt(newRect)
                  /\ isActive' = FALSE
                  /\ draggedElement' = Null
                  /\ dragOffset' = <<>>
                  /\ UNCHANGED <<currentPathPoints, tempPathPoints>>
             [] isActive /\ ~PathCompletes(mode, currentPathPoints)
                         /\ ~(mode = "rectangle" /\ startPoint # <<>>) ->
                  /\ notes' = <<>>
                  /\ isActive' = FALSE
                  /\ draggedElement' = Null
                  /\ dragOffset' = <<>>
                  /\ UNCHANGED <<objs, elements, zIndexOrder, root,
                                 currentPathPoints, tempPathPoints,
                                 tempRectangle, needsFullRedraw, dirtyRegions>>

\* mouseup while no pan is in progress
InteractUp(p) == ~isPanning /\ handleMouseUp(p) /\ UNCHANGED held

(***************************************************************************)
(* CanvasEngine.setMode -> InteractionManager.setMode -> clearSelection    *)
(***************************************************************************)
SetMode(m) ==
    /\ mode' = m
    /\ objs' = ClearSelectionObjs(objs, selectedElement)
    /\ selectedElement' = Null
    /\ needsFullRedraw' = Marked("elementSelected")
    /\ notes' = <<Note("elementSelected", Null, <<>>, <<>>)>>
    /\ last' = [Last("setMode", FALSE) EXCEPT !.sel = selectedElement]
    /\ painted' = <<>>
    /\ UNCHANGED <<callVars, regVars, held>>
    /\ UNCHANGED viewVars
    /\ gest' = EndGesture([gest EXCEPT !.valid = FALSE])
    /\ UNCHANGED <<elements, zIndexOrder, root, isActive, startPoint,
                   currentPoint, draggedElement, dragOffset, currentPathPoints,
                   engineVars, dirtyRegions, removed, fillers, batches>>

(***************************************************************************)
(* CanvasEngine.clearSelection: InteractionManager.clearSelection, then    *)
(* Renderer.markDirty                                                      *)
(***************************************************************************)
ClearSelection ==
    /\ objs' = ClearSelectionObjs(objs, selectedElement)
    /\ selectedElement' = Null
    /\ needsFullRedraw' = TRUE
    /\ notes' = <<Note("elementSelected", Null, <<>>, <<>>)>>
    /\ last' = [Last("clearSelection", FALSE) EXCEPT !.sel = selectedElement]
    /\ painted' = <<>>
    /\ UNCHANGED <<callVars, regVars, held>>
    /\ UNCHANGED viewVars
    /\ gest' = EndGesture(gest)
    /\ UNCHANGED <<elements, zIndexOrder, root, mode, isActive, startPoint,
                   currentPoint, draggedElement, dragOffset, currentPathPoints,
                   engineVars, dirtyRegions, removed, fillers, batches>>

(***************************************************************************)
(* CanvasEngine.addElement called by the host                              *)
(***************************************************************************)
\* addElement of a new shape object whose id the host chose
AddElementAs(id, make) ==
    LET shape == <<HostShape(id, make)>>
    IN  /\ RoomFor(shape)
        /\ AddElementOpt(shape)
        /\ last' = Last("addElement", FALSE)
        /\ notes' = <<>>
        /\ painted' = <<>>
        /\ UNCHANGED <<callVars, regVars, held>>
        /\ UNCHANGED viewVars
        /\ gest' = EndGesture(gest)
        /\ UNCHANGED <<imVars, engineVars, needsFullRedraw, removed, fillers,
                       batches>>

\* addElement of a new shape with a generated id
AddElement(make) == AddElementAs(NextId, make)


(***************************************************************************)
(* CanvasEngine.removeElement and deleteSelectedElement                    *)
(***************************************************************************)
\* ElementManager.remove(id) for a stored id: the map, the order, the index
OrderRemove(order, id) == RemoveFirst(order, id)

\* ElementManager.remove(id): its result, and the map, the draw order and
\* the index it leaves
remove(id) ==
    IF get(id) = Null
    THEN [ret |-> FALSE, elements |-> elements, zIndexOrder |-> zIndexOrder,
          root |-> root]
    ELSE [ret |-> TRUE, elements |-> MapDelete(elements, id),
          zIndexOrder |-> OrderRemove(zIndexOrder, id),
          root |-> IndexRemove(root, get(id), objs)]

\* a variant of RemoveResult that always reports success
RemoveResultTrue(found) == TRUE

\* removeElement's result: `removed` when the shape was found, else false
RemoveResult(found) == found

RemoveElement(id) ==
    /\ last' = [Last("removeElement",
                     RemoveResult(get(id) # Null /\ remove(id).ret))
                   EXCEPT !.sel = id]
    /\ notes' = <<>>
    /\ painted' = <<>>
    /\ UNCHANGED <<callVars, regVars, held>>
    /\ UNCHANGED viewVars
    /\ gest' = EndGesture(gest)
    /\ UNCHANGED <<objs, imVars, engineVars, needsFullRedraw, fillers, batches>>
    /\ IF get(id) # Null
       THEN /\ Len(dirtyRegions) < MaxQueue
            /\ elements' = remove(id).elements
            /\ zIndexOrder' = remove(id).zIndexOrder
            /\ root' = remove(id).root
            /\ dirtyRegions' =
                   Append(dirtyRegions,
                          DirtyRegionOf(getBoundingBox(objs[elements[id]]),
                                        rendererTransform))
            /\ removed' = removed \cup {elements[id]}
       ELSE UNCHANGED <<elements, zIndexOrder, root, dirtyRegions, removed>>

DeleteSelected ==
    LET selected == selectedElement
        id == objs[selected].id
    IN  /\ painted' = <<>>
        /\ UNCHANGED <<callVars, regVars, held>>
        /\ UNCHANGED viewVars
        /\ gest' = EndGesture(gest)
        /\ UNCHANGED <<mode, isActive, startPoint, currentPoint,
                       draggedElement, dragOffset, currentPathPoints,
                       engineVars, fillers, batches>>
        /\ IF selected # Null /\ id \in DOMAIN elements
           THEN /\ Len(dirtyRegions) < MaxQueue
                /\ elements' = MapDelete(elements, id)
                /\ zIndexOrder' = OrderRemove(zIndexOrder, id)
                /\ root' = IndexRemove(root, elements[id], objs)
                /\ dirtyRegions' =
                       Append(dirtyRegions,
                              DirtyRegionOf(getBoundingBox(objs[elements[id]]),
                                            rendererTransform))
                /\ removed' = removed \cup {elements[id]}
                \* clearSelection() runs on the scene without the shape
                /\ objs' = [r \in DOMAIN objs |->
                              IF r = selected
                                 \/ /\ RunsEngine(callbacks["elementSelected"])
                                    /\ r \in SeqRange(
                                           GetAllOf(zIndexOrder', elements'))
                              THEN [objs[r] EXCEPT !.selected = FALSE]
                              ELSE objs[r]]
                /\ selectedElement' = Null
                /\ needsFullRedraw' = TRUE
                /\ notes' = <<Note("elementSelected", Null, <<>>, <<>>),
                              Note("elementSelected", Null, <<>>, <<>>)>>
                /\ last' = Last("deleteSelected", TRUE)
           ELSE /\ notes' = <<>>
                /\ last' = Last("deleteSelected", FALSE)
                /\ UNCHANGED <<objs, elements, zIndexOrder, root,
                               selectedElement, needsFullRedraw, dirtyRegions,
                               removed>>

(***************************************************************************)
(* generateRandomElements: a batch of rectangles added through             *)
(* ElementManager.add, then one markDirty                                  *)
(***************************************************************************)
RECURSIVE AddBatch(_, _, _)
\* st = [objs, elements, zIndexOrder, root] after n more add() calls
AddBatch(st, n, box) ==
    IF n = 0 THEN st
    ELSE LET prev == AddBatch(st, n - 1, box)
             ref == Len(prev.objs) + 1
             O == Append(prev.objs, NewRectangle(ref, box.x, box.y, box.width,
                                                 box.height))
         IN  [objs |-> O,
              elements |-> MapSet(prev.elements, ref, ref),
              zIndexOrder |-> OrderPush(prev.zIndexOrder, ref),
              root |-> IndexInsert(prev.root, ref, O)]

GenerateElements(box) ==
    LET st == AddBatch([objs |-> objs, elements |-> elements,
                        zIndexOrder |-> zIndexOrder, root |-> root],
                       FillCount, box)
    IN  /\ batches < MaxBatches
        /\ objs' = st.objs
        /\ elements' = st.elements
        /\ zIndexOrder' = st.zIndexOrder
        /\ root' = st.root
        /\ needsFullRedraw' = TRUE
        /\ batches' = batches + 1
        /\ fillers' = fillers \cup ((Len(objs) + 1)..Len(st.objs))
        /\ last' = Last("generate", FALSE)
        /\ notes' = <<>>
        /\ painted' = <<>>
        /\ UNCHANGED <<callVars, regVars, held>>
        /\ UNCHANGED viewVars
        /\ gest' = EndGesture(gest)
        /\ UNCHANGED <<imVars, engineVars, dirtyRegions, removed>>

(***************************************************************************)
(* The animation frame: Renderer.render, then the temporary previews       *)
(***************************************************************************)
Pass(kind, clip, els) == [kind |-> kind, clip |-> clip, els |-> els]

\* a variant of ExpandRegion that adds no margin
ExpandNothing(region) == region

ExpandRegion(region) ==
    Box(Max2(0, region.x - RegionMargin), Max2(0, region.y - RegionMargin),
        region.width + 2 * RegionMargin, region.height + 2 * RegionMargin)

RegionCanvasBounds(expanded, t) ==
    WholeBox(Box(RDiv(RSub(RInt(expanded.x), t.translateX), t.scaleX),
                 RDiv(RSub(RInt(expanded.y), t.translateY), t.scaleY),
                 RDiv(RInt(expanded.width), t.scaleX),
                 RDiv(RInt(expanded.height), t.scaleY)))

\* the elements a pass paints, in the order renderElements paints them
PaintList(bounds) == IndexQuery(root, bounds, objs)

RegionPass(region) ==
    Pass("region", <<ExpandRegion(region)>>,
         PaintList(RegionCanvasBounds(ExpandRegion(region),
                                      rendererTransform)))

\* a variant of PreviewPath that takes a single point for a preview
PreviewPathAny(points) == points # <<>> /\ Len(points[1]) > 0

\* this.tempPathPoints && this.tempPathPoints.length > 1
PreviewPath(points) == points # <<>> /\ Len(points[1]) > 1

hasTempPreview ==
    \/ PreviewPath(tempPathPoints)
    \/ tempRectangle # <<>>

\* a variant of FullRedraw that reads the flag only
FullRedrawFlagOnly(flag, force) == flag

\* render's first test: needsFullRedraw || forceFullRedraw
FullRedraw(flag, force) == flag \/ force

Tick ==
    LET main ==
            IF FullRedraw(needsFullRedraw, hasTempPreview)
            THEN <<Pass("full", <<>>,
                        PaintList(WholeBox(
                            getViewportBounds(rendererTransform))))>>
            ELSE [i \in 1..Len(dirtyRegions) |-> RegionPass(dirtyRegions[i])]
        previewPath ==
            IF PreviewPath(tempPathPoints)
            THEN <<Pass("tempPath", <<>>, <<>>)>> ELSE <<>>
        previewRect ==
            IF tempRectangle # <<>>
            THEN <<Pass("tempRectangle", <<>>, <<>>)>> ELSE <<>>
    IN  /\ painted' = main \o previewPath \o previewRect
        /\ UNCHANGED <<callVars, regVars, held>>
        /\ UNCHANGED viewVars
        /\ needsFullRedraw' = FALSE
        /\ dirtyRegions' = <<>>
        /\ last' = Last("tick", FALSE)
        /\ notes' = <<>>
        /\ gest' = EndGesture(gest)
        /\ UNCHANGED <<sceneVars, imVars, engineVars, removed, fillers,
                       batches>>

(***************************************************************************)
(* CanvasEngine.resize: Renderer.resize marks a full redraw, then          *)
(* ElementManager.updateSpatialBounds rebuilds the index from getAll()     *)
(***************************************************************************)
Resize ==
    /\ root' = rebuild(root, RootBounds, getAll, objs)
    /\ needsFullRedraw' = TRUE
    /\ last' = Last("resize", FALSE)
    /\ notes' = <<>>
    /\ painted' = <<>>
    /\ UNCHANGED <<callVars, regVars, held>>
    /\ UNCHANGED viewVars
    /\ gest' = EndGesture(gest)
    /\ UNCHANGED <<objs, elements, zIndexOrder, imVars, engineVars,
                   dirtyRegions, removed, fillers, batches>>

(***************************************************************************)
(* ElementManager.clear: the map, the draw order and the index are emptied; *)
(* the Renderer and the InteractionManager are not told                     *)
(***************************************************************************)
Clear ==
    /\ elements' = <<>>
    /\ zIndexOrder' = <<>>
    /\ root' = IndexClear(root)
    /\ removed' = removed \cup SceneRefs
    /\ last' = Last("clear", FALSE)
    /\ notes' = <<>>
    /\ painted' = <<>>
    /\ UNCHANGED <<callVars, regVars, held>>
    /\ UNCHANGED viewVars
    /\ gest' = EndGesture(gest)
    /\ UNCHANGED <<objs, imVars, engineVars, rendererVars, fillers, batches>>

(***************************************************************************)
(* CanvasEngine.onElementSelected / onPathComplete / onRectangleComplete    *)
(* called by the host with the function h                                   *)
(***************************************************************************)
RegisterCallback(kind, h) ==
    /\ callbacks' = RegisterOn(callbacks, kind, h)
    /\ registered' = [registered EXCEPT ![kind] = h]
    /\ last' = Last("register", FALSE)
    /\ notes' = <<>>
    /\ painted' = <<>>
    /\ gest' = EndGesture(gest)
    /\ UNCHANGED <<sceneVars, imVars, engineVars, rendererVars, viewVars,
                   callVars, held, removed, fillers, batches>>

(***************************************************************************)
(* Zoom and pan.  handleWheel and handlePanning end with                   *)
(*     this.renderer.setTransform(this.transform);                         *)
(*     this.interactionManager.setTransform(this.transform);               *)
(*     this.renderer.markDirty();                                          *)
(* and InteractionManager has no method setTransform (its method is        *)
(* updateTransform): the second call throws a TypeError, so the handler    *)
(* ends there, in the event listener that called it, and what follows the  *)
(* call is not executed.                                                   *)
(***************************************************************************)
minScale == Rat(1, 10)
maxScale == RInt(10)
zoomFactor(deltaY) == IF deltaY > 0 THEN Rat(9, 10) ELSE Rat(11, 10)

\* a variant of ClampScale that does not clamp
NoClamp(sc) == sc

\* Math.max(minScale, Math.min(maxScale, scale))
ClampScale(sc) == RMax(minScale, RMin(maxScale, sc))

\* a variant of ZoomTranslate that keeps the canvas origin under the cursor
ZoomTranslateOrigin(mouse, canvas, newScale) == mouse

\* the translation that keeps `canvas` under the cursor at the new scale
ZoomTranslate(mouse, canvas, newScale) == RSub(mouse, RMul(canvas, newScale))

\* the transform object handleWheel builds
ZoomTransform(t, mouse, deltaY) ==
    LET canvasX == RDiv(RSub(RInt(mouse.x), t.translateX), t.scaleX)
        canvasY == RDiv(RSub(RInt(mouse.y), t.translateY), t.scaleY)
        newScaleX == ClampScale(RMul(t.scaleX, zoomFactor(deltaY)))
        newScaleY == ClampScale(RMul(t.scaleY, zoomFactor(deltaY)))
    IN  [scaleX |-> newScaleX,
         scaleY |-> newScaleY,
         translateX |-> ZoomTranslate(RInt(mouse.x), canvasX, newScaleX),
         translateY |-> ZoomTranslate(RInt(mouse.y), canvasY, newScaleY)]

\* the wheel event: the engine's field gets a new object, the Renderer is
\* given it, the InteractionManager keeps the object it has
HandleWheel(mouse, deltaY) ==
    LET newT == ZoomTransform(transform, mouse, deltaY)
    IN  /\ steps < MaxViewSteps
        /\ steps' = steps + 1
        /\ transform' = newT
        /\ rendererTransform' = newT
        /\ dirtyRegions' = Append(dirtyRegions, SetTransformRegion(newT))
        /\ imShared' = FALSE
        /\ last' = Last("wheel", FALSE)
        /\ notes' = <<>>
        /\ painted' = <<>>
        /\ UNCHANGED <<callVars, regVars, held>>
        /\ gest' = Gesture("wheel", <<mouse>>, Null, <<transform>>)
        /\ UNCHANGED <<sceneVars, imVars, tempPathPoints, tempRectangle,
                       isPanning, panStartPoint, needsFullRedraw, imTransform,
                       removed, fillers, batches>>

\* CanvasEngine.startPanning
startPanning(client) ==
    /\ isPanning' = TRUE
    /\ panStartPoint' = <<client>>
    /\ last' = Last("panStart", FALSE)
    /\ notes' = <<>>
    /\ painted' = <<>>
    /\ UNCHANGED <<callVars, regVars>>
    /\ gest' = Gesture("pan", <<client>>, Null, <<transform>>)
    /\ UNCHANGED <<sceneVars, imVars, tempPathPoints, tempRectangle,
                   transform, rendererVars, viewVars, removed, fillers,
                   batches>>

\* mousedown with the middle button, or with the left button while the
\* space key is held
StartPanning(client) == startPanning(client) /\ UNCHANGED held

\* the translation after `+= delta`
PanTranslate(t, delta) ==
    [t EXCEPT !.translateX = RAdd(@, RInt(delta.x)),
              !.translateY = RAdd(@, RInt(delta.y))]

\* mousemove while panning: the engine's object is changed in place, so
\* whoever refers to that object sees the change; panStartPoint is assigned
\* after the call that throws
handlePanning(client) ==
    LET delta == Pt(client.x - panStartPoint[1].x,
                    client.y - panStartPoint[1].y)
        newT == PanTranslate(transform, delta)
    IN  /\ steps < MaxViewSteps
        /\ steps' = steps + 1
        /\ last' = Last("panMove", FALSE)
        /\ notes' = <<>>
        /\ painted' = <<>>
        /\ UNCHANGED <<callVars, regVars>>
        /\ gest' = IF gest.mode = "pan"
                   THEN [gest EXCEPT !.pts = Append(@, client)] ELSE gest
        /\ UNCHANGED <<sceneVars, imVars, tempPathPoints, tempRectangle,
                       isPanning, panStartPoint, needsFullRedraw, imShared,
                       removed, fillers, batches>>
        /\ IF panStartPoint = <<>>
           THEN UNCHANGED <<transform, rendererTransform, imTransform,
                            dirtyRegions>>
           ELSE /\ transform' = newT
                /\ rendererTransform' = newT
                /\ imTransform' = IF imShared THEN newT ELSE imTransform
                /\ dirtyRegions' =
                       Append(dirtyRegions, SetTransformRegion(newT))

\* mousemove while panning
HandlePanning(client) == isPanning /\ handlePanning(client) /\ UNCHANGED held

\* CanvasEngine.stopPanning
stopPanning ==
    /\ isPanning' = FALSE
    /\ panStartPoint' = <<>>
    /\ last' = Last("panStop", FALSE)
    /\ notes' = <<>>
    /\ painted' = <<>>
    /\ UNCHANGED <<callVars, regVars>>
    /\ gest' = gest
    /\ UNCHANGED <<sceneVars, imVars, tempPathPoints, tempRectangle,
                   transform, rendererVars, viewVars, removed, fillers,
                   batches>>

\* mouseup while panning, or the pointer leaving the canvas while panning
StopPanning == isPanning /\ stopPanning /\ UNCHANGED held

(***************************************************************************)
(* The canvas listeners, with the button of the event and the state of the *)
(* space key (which keydown and keyup events set between mouse events).    *)
(* The canvas is at the client origin.                                     *)
(***************************************************************************)
LeftButton == 0
MiddleButton == 1
Buttons == {LeftButton, MiddleButton}

\* the mousedown listener; a button goes down when it is up
MouseDown(button, spaceKeyPressed, p) ==
    /\ button \notin held
    /\ held' = held \cup {button}
    /\ IF button = MiddleButton \/ (button = LeftButton /\ spaceKeyPressed)
       THEN startPanning(p)
       ELSE handleMouseDown(p)

\* the mousemove listener
MouseMove(p) ==
    /\ UNCHANGED held
    /\ IF isPanning THEN handlePanning(p) ELSE handleMouseMove(p)

\* the mouseup listener; a button goes up when it is down
MouseUp(button, p) ==
    /\ button \in held
    /\ held' = held \ {button}
    /\ IF isPanning /\ (button = MiddleButton \/ button = LeftButton)
       THEN stopPanning
       ELSE handleMouseUp(p)

(***************************************************************************)
(* Specification                                                           *)
(***************************************************************************)
\* ids a host may pass to removeElement: the gesture- or host-made shapes
\* and one id that is not stored
RemovableIds == (1..(Len(objs) + 1)) \ {objs[r].id : r \in fillers}

\* the pointer-up point is read in rectangle mode only
UpInputs == IF mode = "rectangle" THEN UpPoints ELSE {Pt(0, 0)}

\* the engine driven by pointer gestures in the three modes; the pointer is
\* pressed and the mode is switched between gestures
Next ==
    \/ ~isActive /\ \E p \in Points : InteractDown(p)
    \/ \E p \in Points : InteractMove(p)
    \/ \E p \in UpInputs : InteractUp(p) /\ Len(objs') <= MaxDrawn
    \/ ~isActive /\ \E m \in Modes : SetMode(m)
    \/ Tick

Spec == Init /\ [][Next]_vars

\* the index filled through the host API only
NextInsert ==
    \/ \E make \in NearShapes \cup FarShapes : AddElement(make)
    \/ \E b \in FillerBoxes : GenerateElements(b)
    \/ Tick

SpecInsert == Init /\ [][NextInsert]_vars

\* host-made shapes dragged in SELECT mode and painted
NextOrder ==
    \/ \E make \in NearShapes : AddElement(make)
    \/ ~isActive /\ \E p \in Points : InteractDown(p)
    \/ \E p \in Points : InteractMove(p)
    \/ \E p \in UpInputs : InteractUp(p)
    \/ Tick

SpecOrder == Init /\ [][NextOrder]_vars

\* the scene and the index of a generated batch plus a host-made shape,
\* dragged in SELECT mode and removed
NextIndex ==
    \/ \E b \in FillerBoxes : GenerateElements(b)
    \/ UserShapes < MaxBeside /\ \E make \in NearShapes : AddElement(make)
    \/ ~isActive /\ \E p \in Points : InteractDown(p)
    \/ \E p \in Points : InteractMove(p)
    \/ \E p \in UpInputs : InteractUp(p)
    \/ \E id \in RemovableIds : RemoveElement(id)
    \/ DeleteSelected

SpecIndex == Init /\ [][NextIndex]_vars

\* the index rebuilt by resize() after adds, drags and removes
NextRebuild ==
    \/ \E b \in FillerBoxes : GenerateElements(b)
    \/ UserShapes < MaxBeside
           /\ \E make \in NearShapes \cup EdgeShapes : AddElement(make)
    \/ ~isActive /\ \E p \in Points : InteractDown(p)
    \/ \E p \in Points : InteractMove(p)
    \/ \E p \in UpInputs : InteractUp(p)
    \/ \E id \in RemovableIds : RemoveElement(id)
    \/ Resize

SpecRebuild == Init /\ [][NextRebuild]_vars

\* the tree under every operation of the index: inserts (a batch and
\* host-made shapes), updates (drags), removes, clear and rebuild
NextTree ==
    \/ \E b \in FillerBoxes : GenerateElements(b)
    \/ UserShapes < MaxBeside
           /\ \E make \in NearShapes \cup EdgeShapes : AddElement(make)
    \/ ~isActive /\ \E p \in Points : InteractDown(p)
    \/ \E p \in Points : InteractMove(p)
    \/ \E p \in UpInputs : InteractUp(p)
    \/ \E id \in RemovableIds : RemoveElement(id)
    \/ Resize
    \/ Clear

SpecTree == Init /\ [][NextTree]_vars

\* the tree emptied: a batch and a host-made shape, dragged, then the shapes
\* removed one by one (the batch in the order it was made, no gesture once
\* its removal has begun), the queue painted when it is full
StoredFillers == {objs[r].id : r \in fillers \cap SceneRefs}
FirstFiller == {id \in StoredFillers : \A j \in StoredFillers : id <= j}
StoredUser == {objs[r].id : r \in SceneRefs \ fillers}
BatchWhole == fillers \subseteq SceneRefs

NextEmpty ==
    \/ \E b \in FillerBoxes : GenerateElements(b)
    \/ UserShapes < MaxBeside /\ \E make \in NearShapes : AddElement(make)
    \/ BatchWhole /\ ~isActive /\ \E p \in Points : InteractDown(p)
    \/ BatchWhole /\ \E p \in Points : InteractMove(p)
    \/ BatchWhole /\ \E p \in UpInputs : InteractUp(p)
    \/ \E id \in StoredUser \cup FirstFiller : RemoveElement(id)
    \/ Resize
    \/ Clear
    \/ Len(dirtyRegions) = MaxQueue /\ Tick

SpecEmpty == Init /\ [][NextEmpty]_vars

\* pointer gestures with the mode switched at any moment, a pointer-down
\* still held included (the pointer-up listener is on the canvas only, so a
\* button released outside it leaves the gesture open); pointer-ups that
\* would add a shape are left to Spec
NextSwitch ==
    \/ ~isActive /\ \E p \in Points : InteractDown(p)
    \/ \E p \in Points : InteractMove(p)
    \/ \E p \in UpInputs : InteractUp(p) /\ objs' = objs
    \/ \E m \in Modes : SetMode(m)

SpecSwitch == Init /\ [][NextSwitch]_vars

\* the view zoomed by the wheel and panned.  The clamped scales are out of
\* reach of a bounded number of wheel events from scale 1 (25 steps in, 22
\* steps out), so the view also starts from the states those events lead to
\* with the cursor at the canvas origin: the scale at a clamp, the
\* translation 0, the InteractionManager left with the initial object, the
\* frames in between painted.
ZoomedTransform(sc) == [IdentityTransform EXCEPT !.scaleX = sc, !.scaleY = sc]
WheelDeltas == {-100, 100}

InitView ==
    \/ Init
    \/ \E sc \in {minScale, maxScale} :
           /\ transform = ZoomedTransform(sc)
           /\ rendererTransform = ZoomedTransform(sc)
           /\ imTransform = IdentityTransform
           /\ imShared = FALSE
           /\ steps = 0
           /\ needsFullRedraw = FALSE
           /\ dirtyRegions = <<>>
           /\ objs = <<>>
           /\ elements = <<>>
           /\ zIndexOrder = <<>>
           /\ root = NewNode(RootBounds, 0)
           /\ mode = "select"
           /\ isActive = FALSE
           /\ startPoint = <<>>
           /\ currentPoint = <<>>
           /\ selectedElement = Null
           /\ draggedElement = Null
           /\ dragOffset = <<>>
           /\ currentPathPoints = <<>>
           /\ tempPathPoints = <<>>
           /\ tempRectangle = <<>>
           /\ isPanning = FALSE
           /\ panStartPoint = <<>>
           /\ last = Last("init", FALSE)
           /\ notes = <<>>
           /\ painted = <<>>
           /\ gest = NoGesture
           /\ removed = {}
           /\ fillers = {}
           /\ batches = 0
           /\ callbacks = MountedCallbacks
           /\ registered = MountedRegistered
           /\ held = {}
           /\ args = <<>>
           /\ result = <<>>

NextView ==
    \/ \E p \in Points, dy \in WheelDeltas : HandleWheel(p, dy)
    \/ ~isPanning /\ \E p \in Points : StartPanning(p)
    \/ \E p \in Points : HandlePanning(p)
    \/ StopPanning

SpecView == InitView /\ [][NextView]_vars

\* the view zoomed and panned from the mounted component
SpecPanZoom == Init /\ [][NextView]_vars

\* gestures in the three modes while the host registers callbacks between
\* them, for one kind at a time beside the Canvas component's; the host adds
\* a square and then a stroke, a shape is picked at either point and drawn
\* from the origin to (10,10) into an empty scene, no shape is dragged, and
\* the frames are painted
HostScene == <<MakeRect(Box(0, 0, 10, 10)), MakePath(<<Pt(12, 12), Pt(22, 22)>>)>>
DownInputs == IF mode = "select" THEN Points ELSE {Pt(0, 0)}

NextCallbacks ==
    \/ ~isActive
           /\ \E k \in HostKinds, h \in HostCallbacks :
                  /\ \A j \in HostKinds \ {k} : registered[j] = CanvasCallback
                  /\ RegisterCallback(k, h)
    \/ Len(objs) < Len(HostScene) /\ AddElement(HostScene[Len(objs) + 1])
    \/ ~isActive /\ \E p \in DownInputs : InteractDown(p)
    \/ isActive /\ draggedElement = Null /\ InteractMove(Pt(10, 10))
    \/ InteractUp(Pt(10, 10)) /\ (objs' # objs => Len(objs') <= MaxDrawn)
    \/ ~isActive /\ \E m \in Modes : SetMode(m)
    \/ Tick

SpecCallbacks == Init /\ [][NextCallbacks]_vars

\* the frames painted while a stroke or a rectangle is drawn and the host
\* adds a shape, the queue holding its region when the frame comes
DrawModes == {"pen", "rectangle"}

NextPreview ==
    \/ UserShapes < MaxBeside /\ \E make \in NearShapes : AddElement(make)
    \/ ~isActive /\ \E p \in Points : InteractDown(p)
    \/ \E p \in Points : InteractMove(p)
    \/ \E p \in UpInputs : InteractUp(p) /\ Len(objs') <= MaxDrawn
    \/ ~isActive /\ \E m \in DrawModes : SetMode(m)
    \/ Tick

SpecPreview == Init /\ [][NextPreview]_vars

\* two host-made shapes picked one after the other in SELECT mode, removed
\* by the host and deleted through the selection, with mode switches
NextSelect ==
    \/ Len(objs) < Len(HostScene) /\ AddElement(HostScene[Len(objs) + 1])
    \/ ~isActive /\ \E p \in DownInputs : InteractDown(p)
    \/ isActive /\ InteractMove(Pt(10, 10))
    \/ InteractUp(Pt(0, 0)) /\ objs' = objs
    \/ \E id \in 1..Len(objs) : RemoveElement(id)
    \/ DeleteSelected
    \/ \E m \in {"select", "pen"} : SetMode(m)

SpecSelect == Init /\ [][NextSelect]_vars

\* draw and drag gestures interleaved with pan gestures: the buttons go
\* down and up over the canvas in any order, the mode is switched while no
\* button is down
NextMouse ==
    \/ Len(objs) < 1 /\ AddElement(HostScene[1])
    \/ \E b \in Buttons, space \in BOOLEAN : MouseDown(b, space, Pt(0, 0))
    \/ (isPanning => steps < MaxPans) /\ MouseMove(Pt(10, 10))
    \/ \E b \in Buttons : MouseUp(b, Pt(10, 10)) /\ objs' = objs
    \/ held = {} /\ \E m \in {"select", "pen"} : SetMode(m)

SpecMouse == Init /\ [][NextMouse]_vars

\* the scene store filled by the host with generated ids and with ids that
\* are in use or were in use, emptied shape by shape and at once
NextStore ==
    \/ \E id \in 1..NextId, make \in NearShapes : AddElementAs(id, make)
    \/ \E id \in 1..Len(objs) : RemoveElement(id)
    \/ Clear
    \/ Tick

SpecStore == Init /\ [][NextStore]_vars

\* every operation that changes what is visible, with ticks in between
NextDirty ==
    \/ Len(objs) < 1 /\ AddElement(HostScene[1])
    \/ ~isActive /\ \E id \in 1..(Len(objs) + 1) : RemoveElement(id)
    \/ ~isActive /\ ClearSelection
    \/ ~isActive /\ \E m \in Modes : SetMode(m)
    \/ ~isActive /\ InteractDown(Pt(0, 0))
    \/ isActive /\ InteractMove(Pt(10, 10))
    \/ InteractUp(Pt(10, 10)) /\ objs' = objs
    \/ steps < MaxPans /\ ~isActive /\ HandleWheel(Pt(0, 0), 100)
    \/ ~isPanning /\ ~isActive /\ steps < MaxPans /\ StartPanning(Pt(0, 0))
    \/ steps < MaxPans /\ HandlePanning(Pt(10, 10))
    \/ StopPanning
    \/ ~isActive /\ Resize
    \/ Tick

SpecDirty == Init /\ [][NextDirty]_vars

\* shapes with the bounds of a generated batch, and shapes that cover the
\* whole root
DeepBoxes == {Box(100, 100, 20, 20), RootBounds}

\* the index filled with more than maxElements shapes of the same bounds
NextDeep ==
    \/ \E b \in DeepBoxes : GenerateElements(b)
    \/ \E b \in DeepBoxes : AddElement(MakeRect(b))
    \/ \E make \in NearShapes : AddElement(make)

SpecDeep == Init /\ [][NextDeep]_vars

\* the frames painted while shapes are added, drawn, dragged and the view is
\* panned (a pan keeps the scale 1 and the translation whole, so the regions
\* and the canvas-space bounds of a frame are whole numbers)
RenderModes == {"select", "rectangle"}
\* a square at the corner of the unpanned viewport and one beyond that
\* corner, which a pan brings into view
RenderShapes == {MakeRect(Box(0, 0, 10, 10)), MakeRect(Box(-8, -8, 5, 5))}

NextRender ==
    \/ UserShapes < MaxBeside /\ \E make \in RenderShapes : AddElement(make)
    \/ ~isActive /\ \E p \in Points : InteractDown(p)
    \/ \E p \in Points : InteractMove(p)
    \/ \E p \in UpInputs : InteractUp(p) /\ Len(objs') <= MaxDrawn
    \/ ~isActive /\ \E m \in RenderModes : SetMode(m)
    \/ ~isPanning /\ steps < MaxPans /\ \E p \in Points : StartPanning(p)
    \/ steps < MaxPans /\ \E p \in Points : HandlePanning(p)
    \/ StopPanning
    \/ Tick

SpecRender == Init /\ [][NextRender]_vars

\* the shape the host adds beside the batch
FrameShapes == {MakeRect(Box(0, 0, 10, 10))}

\* a scene of a batch and a host-made shape, selected and dragged, its
\* frames painted, and then the view zoomed or panned by one event
NextFrame ==
    \/ steps = 0 /\ \E b \in FillerBoxes : GenerateElements(b)
    \/ steps = 0 /\ UserShapes < MaxBeside
           /\ \E make \in FrameShapes : AddElement(make)
    \/ steps = 0 /\ ~isActive /\ \E p \in Points : InteractDown(p)
    \/ steps = 0 /\ \E p \in Points : InteractMove(p)
    \/ \E p \in UpInputs : InteractUp(p)
    \/ steps = 0 /\ Tick
    \/ steps < MaxPans
           /\ \E p \in Points, dy \in WheelDeltas : HandleWheel(p, dy)
    \/ ~isPanning /\ steps < MaxPans /\ \E p \in Points : StartPanning(p)
    \/ steps < MaxPans /\ \E p \in Points : HandlePanning(p)
    \/ StopPanning

SpecFrame == Init /\ [][NextFrame]_vars

(***************************************************************************)
(* The utility functions called directly                                   *)
(***************************************************************************)
\* the numbers a transform and a point are made of: scales that are not 0
\* (shrinking, growing, mirroring), whole and fractional translations and
\* coordinates
ScaleValues == {Rat(1, 10), Rat(1, 2), RInt(1), RInt(3), Rat(-4, 3)}
TranslateValues == {RInt(-7), RInt(0), Rat(1, 3)}
CoordValues == {RInt(-3), Rat(1, 7), RInt(10)}
TransformValues ==
    [scaleX : ScaleValues, scaleY : ScaleValues,
     translateX : TranslateValues, translateY : TranslateValues]
PointValues == [x : CoordValues, y : CoordValues]

\* applyTransform(p, t) called on the arguments
CallApplyTransform ==
    /\ result = <<>>
    /\ result' = <<applyTransform(args.p, args.t)>>
    /\ UNCHANGED <<engineState, args>>

\* applyInverseTransform called on what applyTransform returned
CallApplyInverseTransform ==
    /\ Len(result) = 1
    /\ result' = Append(result, applyInverseTransform(result[1], args.t))
    /\ UNCHANGED <<engineState, args>>

InitTransform ==
    /\ Constructed
    /\ args \in [p : PointValues, t : TransformValues]
    /\ result = <<>>

NextTransform ==
    \/ CallApplyTransform
    \/ CallApplyInverseTransform

SpecTransform == InitTransform /\ [][NextTransform]_vars

\* rectangles and points around the square (2,2)-(4,4): apart from it,
\* touching it along an edge or at a corner, overlapping it, inside it;
\* sides of length 0 included
RectValuesA == {Box(2, 2, w, h) : w \in {0, 2}, h \in {0, 2}}
RectValuesB ==
    {Box(x, y, w, h) : x \in {0, 1, 3, 4, 5}, y \in {0, 1, 3, 4, 5},
                       w \in {0, 1, 2}, h \in {0, 1, 2}}
GridPointValues == {Pt(x, y) : x \in {1, 2, 4, 5}, y \in {1, 2, 4, 5}}

Returned(fn, out) == [fn |-> fn, out |-> out]
Called(fn) == \E i \in 1..Len(result) : result[i].fn = fn

\* rectsIntersect called on the two rectangles, in both orders
CallRectsIntersect ==
    /\ ~Called("rectsIntersect")
    /\ result' = Append(result,
                        Returned("rectsIntersect",
                                 <<rectsIntersect(args.a, args.b),
                                   rectsIntersect(args.b, args.a)>>))
    /\ UNCHANGED <<engineState, args>>

\* pointInRect called on the point and the first rectangle
CallPointInRect ==
    /\ ~Called("pointInRect")
    /\ result' = Append(result,
                        Returned("pointInRect",
                                 <<pointInRect(args.p, args.a)>>))
    /\ UNCHANGED <<engineState, args>>

InitGeometry ==
    /\ Constructed
    /\ args \in [a : RectValuesA, b : RectValuesB, p : GridPointValues]
    /\ result = <<>>

NextGeometry ==
    \/ CallRectsIntersect
    \/ CallPointInRect

SpecGeometry == InitGeometry /\ [][NextGeometry]_vars

(***************************************************************************)
(* Properties                                                              *)
(***************************************************************************)
\* the points and regions the index is probed at
TestPoints == Points \cup {Pt(-1, 0), Pt(12, 2), Pt(15, 15), Pt(10003, 5),
                           Pt(10003, 10003)}
TestRegions == {Box(0, 0, CanvasWidth, CanvasHeight), Box(-5, -5, 10, 10),
                Box(9990, 9990, 6, 6), Box(10002, 10002, 2, 2),
                Box(10001, 0, 5, 5)}

NoDuplicates(s) == Len(s) = Cardinality(SeqRange(s))
\* the place of a scene shape in the draw order
Pos(r) == CHOOSE i \in 1..Len(getAll) : getAll[i] = r
BoxOf(r) == getBoundingBox(objs[r])

\* C1: once a shape has been removed from the scene, no query(region) and no
\* queryPoint(point) returns it, for every probed region and point.
C1_RemovedNeverReturned ==
    \A r \in removed :
        /\ \A b \in TestRegions : r \notin SeqRange(IndexQuery(root, b, objs))
        /\ \A p \in TestPoints : IndexQueryPoint(root, p, objs) # r

\* C2 as stated: query(region) returns exactly the inserted shapes whose
\* bounding boxes intersect the region, each once.
C2_QueryExactlyIntersecting ==
    \A b \in TestRegions :
        LET res == IndexQuery(root, b, objs)
        IN  /\ SeqRange(res) = {r \in SceneRefs : rectsIntersect(BoxOf(r), b)}
            /\ NoDuplicates(res)

\* C2: after insertions only, query(region) returns exactly the inserted
\* shapes whose bounding box, the region and the root bounds of the index
\* intersect one another, each once, split tree or not.
C2_QueryWithinRoot ==
    \A b \in TestRegions :
        LET res == IndexQuery(root, b, objs)
        IN  /\ SeqRange(res) =
                  {r \in SceneRefs : /\ rectsIntersect(BoxOf(r), b)
                                     /\ rectsIntersect(BoxOf(r), RootBounds)
                                     /\ rectsIntersect(b, RootBounds)}
            /\ NoDuplicates(res)

\* a split tree holding a shape on the quadrant lines, returned by a region
\* across them, and a shape beyond the root bounds
C2_Witness ==
    /\ root.children # <<>>
    /\ \E r \in SceneRefs : ~rectsIntersect(BoxOf(r), RootBounds)
    /\ \E r \in SceneRefs \ fillers :
           r \in SeqRange(IndexQuery(root, Box(-5, -5, 10, 10), objs))

\* C3: in every paint pass the shapes are painted in the scene's insertion
\* order.
C3_PaintInSceneOrder ==
    \A k \in 1..Len(painted) :
        LET els == painted[k].els
        IN  \A i, j \in 1..Len(els) :
                (i < j /\ els[i] \in SceneRefs /\ els[j] \in SceneRefs)
                    => Pos(els[i]) < Pos(els[j])

\* C4: when the hit test of some scene shape contains p, queryPoint(p)
\* returns the one among them that is last in draw order.
C4_PointQueryTopmost ==
    \A p \in TestPoints :
        LET hits == {r \in SceneRefs : containsPoint(objs[r], p)}
        IN  hits # {} =>
                /\ IndexQueryPoint(root, p, objs) \in hits
                /\ \A r \in hits : Pos(r) <= Pos(IndexQueryPoint(root, p, objs))

\* C5: during and at the end of a SELECT gesture that grabbed a shape at p0
\* and whose last move was to pn, the shape's stored position, its
\* bounding-box origin and every point of a path have shifted by pn - p0 from
\* where they were when the shape was grabbed.
C5_DragDisplacement ==
    (gest.mode = "select" /\ gest.valid /\ gest.el # Null) =>
        LET el == objs[gest.el]
            was == gest.geom0[1]
            dx == gest.pts[Len(gest.pts)].x - gest.pts[1].x
            dy == gest.pts[Len(gest.pts)].y - gest.pts[1].y
        IN  /\ getBoundingBox(el).x = getBoundingBox(was).x + dx
            /\ getBoundingBox(el).y = getBoundingBox(was).y + dy
            /\ getBoundingBox(el).width = getBoundingBox(was).width
            /\ getBoundingBox(el).height = getBoundingBox(was).height
            /\ el.x = was.x + dx * was.den
            /\ el.y = was.y + dy * was.den
            /\ el.points = TranslatePoints(was.points, dx, dy)

\* a path dragged by a non-zero delta over two moves, its pointer-up handled
C5_Witness ==
    /\ last.op = "up"
    /\ gest.mode = "select"
    /\ gest.el # Null
    /\ objs[gest.el].type = "path"
    /\ gest.pts[Len(gest.pts)] # gest.pts[1]
    /\ objs[gest.el].points # gest.geom0[1].points

\* C6: after a drag move, queryPoint at a point of the dragged shape's new
\* footprint with no other shape above it there returns the shape, and no
\* point or region that lies only in its old footprint returns it.
C6_ReindexedAfterDrag ==
    (last.op = "move" /\ gest.mode = "select" /\ gest.el # Null
        /\ gest.el \in SceneRefs) =>
        LET el == gest.el
            was == gest.geom0[1]
        IN  /\ \A p \in TestPoints :
                   ( /\ containsPoint(objs[el], p)
                     /\ ~\E q \in SceneRefs : /\ Pos(q) > Pos(el)
                                              /\ containsPoint(objs[q], p) )
                       => IndexQueryPoint(root, p, objs) = el
            /\ \A p \in TestPoints :
                   (containsPoint(was, p) /\ ~containsPoint(objs[el], p))
                       => IndexQueryPoint(root, p, objs) # el
            /\ \A b \in TestRegions :
                   ( /\ rectsIntersect(b, getBoundingBox(was))
                     /\ ~rectsIntersect(b, BoxOf(el)) )
                       => el \notin SeqRange(IndexQuery(root, b, objs))

\* C7: the pointer-up of a PEN gesture of a down and k >= 1 moves notifies
\* "path complete" once, with the down point followed by the move points in
\* order, and leaves the in-progress sequence empty; the pointer-up of a
\* down with no move notifies nothing.
C7_PenGesture ==
    (last.op = "up" /\ gest.mode = "pen" /\ gest.valid) =>
        IF Len(gest.pts) >= 2
        THEN /\ notes = <<Note("pathComplete", Null, gest.pts, <<>>)>>
             /\ currentPathPoints = <<>>
        ELSE notes = <<>>

\* a PEN gesture of a down and two moves to different points, completed
C7_Witness ==
    /\ last.op = "up"
    /\ gest.mode = "pen"
    /\ Len(gest.pts) = 3
    /\ gest.pts[2] # gest.pts[3]
    /\ notes # <<>>

\* C8: in a RECTANGLE gesture the pointer-down notifies "rectangle drawing"
\* with (start, start), every move "rectangle drawing" with (start, current)
\* and the pointer-up "rectangle complete" once with (start, canvas point of
\* the up), whatever the size.
C8_RectangleGesture ==
    (gest.mode = "rectangle" /\ gest.valid) =>
        CASE last.op = "down" ->
                 notes = <<Note("rectangleDrawing", Null,
                                <<gest.pts[1], gest.pts[1]>>, <<>>)>>
          [] last.op = "move" ->
                 notes = <<Note("rectangleDrawing", Null,
                                <<gest.pts[1], gest.pts[Len(gest.pts)]>>,
                                <<>>)>>
          [] last.op = "up" ->
                 notes = <<Note("rectangleComplete", Null,
                                <<gest.pts[1], gest.up[1]>>, <<>>)>>
          [] OTHER -> TRUE

\* a RECTANGLE gesture released where it was pressed, after a move elsewhere
C8_Witness ==
    /\ last.op = "up"
    /\ gest.mode = "rectangle"
    /\ Len(gest.pts) = 2
    /\ gest.pts[2] # gest.pts[1]
    /\ gest.up = <<gest.pts[1]>>
    /\ notes # <<>>

\* C9: a step that notifies "rectangle complete" with corners (start, end)
\* adds a rectangle to the scene and the index iff both |end.x - start.x|
\* and |end.y - start.y| are at least 5, with the component-wise minimum of
\* the corners as origin; otherwise it leaves the scene and the index as
\* they were.
RectangleCompleted ==
    /\ notes' # <<>>
    /\ notes'[1].kind = "rectangleComplete"
    /\ last'.op = "up"
    /\ isActive
C9_Step ==
    RectangleCompleted =>
        LET start == notes'[1].pts[1]
            end == notes'[1].pts[2]
            w == Abs(end.x - start.x)
            h == Abs(end.y - start.y)
            ref == Len(objs) + 1
        IN  IF w >= 5 /\ h >= 5
            THEN /\ Len(objs') = ref
                 /\ objs'[ref].type = "rectangle"
                 /\ getBoundingBox(objs'[ref]) =
                        Box(Min2(start.x, end.x), Min2(start.y, end.y), w, h)
                 /\ getAll' = Append(getAll, ref)
                 /\ ref \in SeqRange(IndexQuery(root', getBoundingBox(objs'[ref]),
                                                objs'))
            ELSE UNCHANGED <<objs, elements, zIndexOrder, root>>
C9_DegenerateRectangle == [][C9_Step]_vars

\* a "rectangle complete" for the corners (0,0)-(2,2) that added nothing
C9_Witness ==
    /\ last.op = "up"
    /\ notes # <<>>
    /\ notes[1].kind = "rectangleComplete"
    /\ notes[1].pts = <<Pt(0, 0), Pt(2, 2)>>
    /\ objs = <<>>

\* C10: after every setMode call the selected slot is empty, the shape that
\* was selected has its selected flag false, and "selection changed" has been
\* notified with null.
C10_ModeSwitchClearsSelection ==
    last.op = "setMode" =>
        /\ selectedElement = Null
        /\ last.sel # Null => ~objs[last.sel].selected
        /\ \A r \in SceneRefs : ~objs[r].selected
        /\ notes = <<Note("elementSelected", Null, <<>>, <<>>)>>

\* a setMode away from SELECT made while a shape was selected
C10_Witness ==
    /\ last.op = "setMode"
    /\ last.sel # Null
    /\ mode = "pen"

\* C11: in SELECT mode a pointer-down whose canvas point is contained by some
\* scene shape leaves one such shape in the selected slot and in the dragged
\* slot, with its selected flag set, and notifies "selection changed" with
\* it; a pointer-down contained by no shape empties the selected slot and
\* clears the flag of the shape that was selected; a pointer-up empties the
\* dragged slot and changes neither the selected slot nor any selected flag.
C11_Step ==
    LET p == startPoint'[1]
        hits == {r \in SceneRefs : containsPoint(objs[r], p)}
    IN  /\ (last'.op = "down" /\ mode = "select" /\ hits # {}) =>
               /\ selectedElement' \in hits
               /\ draggedElement' = selectedElement'
               /\ objs'[selectedElement'].selected
               /\ notes' = <<Note("elementSelected", selectedElement', <<>>,
                                  <<>>)>>
        /\ (last'.op = "down" /\ mode = "select" /\ hits = {}) =>
               /\ selectedElement' = Null
               /\ selectedElement # Null => ~objs'[selectedElement].selected
               /\ notes' = <<Note("elementSelected", Null, <<>>, <<>>)>>
        /\ (last'.op = "up" /\ mode = "select") =>
               /\ draggedElement' = Null
               /\ selectedElement' = selectedElement
               /\ \A r \in DOMAIN objs : objs'[r].selected = objs[r].selected
C11_SelectDownUp == [][C11_Step]_vars

\* a pointer-down that missed every shape, after an earlier gesture selected
\* a rectangle and dragged it away
C11_Witness ==
    /\ last.op = "down"
    /\ mode = "select"
    /\ selectedElement = Null
    /\ \E r \in SceneRefs : objs[r].type = "rectangle" /\ objs[r].x # 0

\* C12: after every pointer-up and after every mode switch the per-gesture
\* state is reset: the active flag is false, the dragged slot is empty and
\* the in-progress freehand sequence is empty.
C12_GestureStateReset ==
    last.op \in {"up", "setMode"} =>
        /\ ~isActive
        /\ draggedElement = Null
        /\ currentPathPoints = <<>>

\* the scale of a transform lies in [0.1, 10]
ScaleInRange(t) ==
    /\ ~RLess(t.scaleX, minScale) /\ ~RLess(maxScale, t.scaleX)
    /\ ~RLess(t.scaleY, minScale) /\ ~RLess(maxScale, t.scaleY)

\* C13: in every reachable state, whatever wheel events and pans came
\* before, scaleX and scaleY of the engine's transform (and of the transforms
\* the Renderer and the InteractionManager hold) lie in [0.1, 10]; the scale
\* is never 0.
C13_ScaleClamped ==
    \A t \in {transform, rendererTransform, imTransform} :
        /\ ScaleInRange(t)
        /\ t.scaleX.n # 0 /\ t.scaleY.n # 0

\* a wheel event whose scale was clamped at the upper limit, and one clamped
\* at the lower limit
C13_Witness ==
    /\ last.op = "wheel"
    /\ transform.scaleX = maxScale
    /\ gest.geom0[1].scaleX # maxScale
C13_WitnessMin ==
    /\ last.op = "wheel"
    /\ transform.scaleX = minScale
    /\ gest.geom0[1].scaleX # minScale

\* C14: after a wheel event with the cursor at screen point s, the canvas
\* point that the transform before the zoom maps to s is mapped to s by the
\* transform after the zoom, clamped scale or not.
C14_ZoomFixedPoint ==
    last.op = "wheel" =>
        LET s == RPt(gest.pts[1])
            before == gest.geom0[1]
            canvas == applyInverseTransform(s, before)
        IN  /\ applyTransform(canvas, transform) = s
            /\ applyInverseTransform(s, transform) = canvas

\* a zoom about a cursor away from the origin of a panned view, the new scale
\* clamped
C14_Witness ==
    /\ last.op = "wheel"
    /\ gest.pts[1] = Pt(10, 10)
    /\ gest.geom0[1].translateX # RInt(0)
    /\ transform.scaleX = maxScale
    /\ transform.translateX # gest.geom0[1].translateX

\* C15: after the n-th pointer-move of a pan that began at client point s0,
\* the translation has grown by sn - s0 since the pan began and the scale is
\* the same.
C15_PanAccumulates ==
    (last.op = "panMove" /\ gest.mode = "pan" /\ gest.valid) =>
        LET t0 == gest.geom0[1]
            s0 == gest.pts[1]
            sn == gest.pts[Len(gest.pts)]
        IN  /\ transform.translateX = RAdd(t0.translateX, RInt(sn.x - s0.x))
            /\ transform.translateY = RAdd(t0.translateY, RInt(sn.y - s0.y))
            /\ transform.scaleX = t0.scaleX
            /\ transform.scaleY = t0.scaleY

\* C16: after every pan step and every zoom step the transform the
\* InteractionManager converts pointer positions with, the transform the
\* Renderer paints with and the engine's transform are equal.
C16_TransformShared ==
    last.op \in {"wheel", "panMove"} =>
        /\ imTransform = rendererTransform
        /\ rendererTransform = transform

\* C17: a drag move with a zero delta calls update(shape) on an indexed shape
\* whose geometry has not changed; it leaves query(region) the same for
\* every probed region and queryPoint(p) the same for every probed point.
C17_Step ==
    ( /\ last'.op = "move"
      /\ isActive /\ mode = "select"
      /\ draggedElement \in SceneRefs
      /\ objs' = objs ) =>
        /\ \A b \in TestRegions :
               IndexQuery(root', b, objs') = IndexQuery(root, b, objs)
        /\ \A p \in TestPoints :
               IndexQueryPoint(root', p, objs') = IndexQueryPoint(root, p, objs)
C17_UpdateIdempotent == [][C17_Step]_vars

\* C18: addElement of a shape whose bounds do not intersect the root bounds
\* leaves the index as it was and still stores the shape in the scene; such
\* a shape is returned by no query(region) and no queryPoint(p), while
\* getAll() lists it and get(id) returns it.
C18_Step ==
    ( /\ last'.op = "addElement"
      /\ Len(objs') = Len(objs) + 1
      /\ ~rectsIntersect(getBoundingBox(objs'[Len(objs')]), RootBounds) ) =>
        /\ root' = root
        /\ elements' = MapSet(elements, objs'[Len(objs')].id, Len(objs'))
        /\ getAll' = Append(getAll, Len(objs'))
C18_Stored ==
    \A r \in SceneRefs :
        ~rectsIntersect(BoxOf(r), RootBounds) =>
            /\ \A b \in TestRegions :
                   r \notin SeqRange(IndexQuery(root, b, objs))
            /\ \A p \in TestPoints : IndexQueryPoint(root, p, objs) # r
            /\ get(objs[r].id) = r
            /\ r \in SeqRange(getAll)
C18_OutOfUniverseInsert == [][C18_Step]_vars /\ []C18_Stored

\* a shape beyond the root bounds added to a scene whose root has split, a
\* probed point inside the shape
C18_Witness ==
    /\ last.op = "addElement"
    /\ root.children # <<>>
    /\ ~rectsIntersect(BoxOf(Len(objs)), RootBounds)
    /\ containsPoint(objs[Len(objs)], Pt(10003, 5))

\* C19: removeElement(id) for an id that is not in the scene returns false
\* and leaves the scene map, the draw order, the index, the shapes and the
\* renderer's dirty state unchanged; get(id) is null before and after; and
\* ElementManager.remove(id) for such an id returns false and leaves the map,
\* the draw order and the index as they are.
C19_Step ==
    (last'.op = "removeElement" /\ last'.sel \notin DOMAIN elements) =>
        /\ ~last'.ret
        /\ get(last'.sel) = Null
        /\ GetOf(elements', last'.sel) = Null
        /\ UNCHANGED <<objs, elements, zIndexOrder, root, needsFullRedraw,
                       dirtyRegions>>
C19_ManagerRemove ==
    \A id \in RemovableIds :
        get(id) = Null =>
            /\ ~remove(id).ret
            /\ remove(id).elements = elements
            /\ remove(id).zIndexOrder = zIndexOrder
            /\ remove(id).root = root
C19_MissingEntity == [][C19_Step]_vars /\ []C19_ManagerRemove

\* removeElement called a second time with the id of a shape removed before,
\* other shapes still in a split index
C19_Witness ==
    /\ last.op = "removeElement"
    /\ ~last.ret
    /\ \E r \in removed : objs[r].id = last.sel
    /\ root.children # <<>>

\* C20 as stated: after resize(), query(region) returns exactly the shapes of
\* getAll() whose current bounds intersect the region and intersect the root
\* bounds, each once.
C20_RebuildBoundsAndRoot ==
    last.op = "resize" =>
        \A b \in TestRegions :
            LET res == IndexQuery(root, b, objs)
            IN  /\ SeqRange(res) =
                      {r \in SceneRefs : /\ rectsIntersect(BoxOf(r), b)
                                         /\ rectsIntersect(BoxOf(r), RootBounds)}
                /\ NoDuplicates(res)

\* C20: after resize(), whatever adds, drags and removes came before,
\* query(region) returns exactly the shapes of getAll() whose current bounds,
\* the region and the root bounds intersect one another, each once, and the
\* tree holds no reference to a shape that is not in the scene.
C20_RebuildExact ==
    last.op = "resize" =>
        /\ \A b \in TestRegions :
               LET res == IndexQuery(root, b, objs)
               IN  /\ SeqRange(res) =
                         {r \in SceneRefs :
                              /\ rectsIntersect(BoxOf(r), b)
                              /\ rectsIntersect(BoxOf(r), RootBounds)
                              /\ rectsIntersect(b, RootBounds)}
                   /\ NoDuplicates(res)
        /\ TreeRefs(root) \subseteq SceneRefs
        /\ removed \cap TreeRefs(root) = {}

\* a resize after a path was dragged beside a generated batch and then
\* removed
C20_Witness ==
    /\ last.op = "resize"
    /\ fillers # {}
    /\ \E r \in removed :
           objs[r].type = "path" /\ objs[r].points[1] # Pt(12, 12)

\* C21: deleteSelectedElement with a shape of the scene in the selected slot
\* returns true and leaves that shape out of getAll(), out of every probed
\* query(region) and queryPoint(p), and the selected slot empty; with an
\* empty slot it returns false and changes no state of the engine.
C21_Step ==
    last'.op = "deleteSelected" =>
        /\ selectedElement \in SceneRefs =>
               /\ last'.ret
               /\ selectedElement \notin SeqRange(getAll')
               /\ \A b \in TestRegions :
                      selectedElement
                          \notin SeqRange(IndexQuery(root', b, objs'))
               /\ \A p \in TestPoints :
                      IndexQueryPoint(root', p, objs') # selectedElement
               /\ selectedElement' = Null
        /\ selectedElement = Null =>
               /\ ~last'.ret
               /\ UNCHANGED <<sceneVars, imVars, engineVars, rendererVars,
                              viewVars>>
C21_DeleteSelected == [][C21_Step]_vars

\* C22: for every transform with non-zero scaleX and scaleY and every point
\* p, applyInverseTransform(applyTransform(p, t), t) equals p, in exact
\* arithmetic.
C22_RoundTrip ==
    Len(result) = 2 =>
        /\ args.t.scaleX.n # 0 /\ args.t.scaleY.n # 0
        /\ result[2] = args.p

\* a fractional point taken through a shrinking, mirroring transform with a
\* fractional translation and back
C22_Witness ==
    /\ Len(result) = 2
    /\ args.p = Pt(Rat(1, 7), RInt(-3))
    /\ args.t.scaleX = Rat(1, 10)
    /\ args.t.scaleY = Rat(-4, 3)
    /\ args.t.translateX = Rat(1, 3)
    /\ result[1] # args.p

\* the whole-number points around the rectangles tried; two closed rectangles
\* with whole corners that share a point share a whole one
GridRange == -1..8
InClosedRect(x, y, r) ==
    /\ r.x <= x /\ x <= r.x + r.width
    /\ r.y <= y /\ y <= r.y + r.height
SharePoint(a, b) ==
    \E x \in GridRange, y \in GridRange :
        InClosedRect(x, y, a) /\ InClosedRect(x, y, b)

\* C23: rectsIntersect(a, b) is true exactly when the closed rectangles a and
\* b share a point, touching along an edge or at a corner included, and
\* rectsIntersect(b, a) is the same; pointInRect(p, r) is true exactly when p
\* lies in the closed rectangle r, its four boundaries included.
C23_ClosedIntervals ==
    \A i \in 1..Len(result) :
        /\ result[i].fn = "rectsIntersect" =>
               /\ result[i].out[1] = SharePoint(args.a, args.b)
               /\ result[i].out[2] = result[i].out[1]
        /\ result[i].fn = "pointInRect" =>
               result[i].out[1] = InClosedRect(args.p.x, args.p.y, args.a)

\* two squares that touch at one corner found intersecting, and that corner
\* found in the square
C23_Witness ==
    /\ args.a = Box(2, 2, 2, 2)
    /\ args.b = Box(4, 4, 1, 1)
    /\ args.p = Pt(4, 4)
    /\ \E i \in 1..Len(result) :
           result[i] = Returned("rectsIntersect", <<TRUE, TRUE>>)
    /\ \E i \in 1..Len(result) : result[i] = Returned("pointInRect", <<TRUE>>)

\* the canvas-space rectangle that transform t shows in the viewport: the
\* inverse images of the viewport's corners
VisibleCanvas(t) ==
    LET tl == applyInverseTransform(RPt(Pt(0, 0)), t)
        br == applyInverseTransform(RPt(Pt(CanvasWidth, CanvasHeight)), t)
    IN  WholeBox(Box(tl.x, tl.y, RSub(br.x, tl.x), RSub(br.y, tl.y)))
PassKinds(passes) == [k \in 1..Len(passes) |-> passes[k].kind]

\* C24: a tick at which the full-redraw flag is set or a preview forces a full
\* redraw clears the whole viewport (one unclipped pass, no region pass),
\* paints exactly query(the canvas-space bounds of the viewport under the
\* engine's current transform), and leaves the full-redraw flag false and the
\* queue empty, whatever was queued.
C24_Step ==
    (last'.op = "tick" /\ (needsFullRedraw \/ hasTempPreview)) =>
        /\ painted' # <<>>
        /\ painted'[1] =
               Pass("full", <<>>,
                    IndexQuery(root, VisibleCanvas(transform), objs))
        /\ \A k \in 2..Len(painted') :
               painted'[k].kind \in {"tempPath", "tempRectangle"}
        /\ ~needsFullRedraw'
        /\ dirtyRegions' = <<>>
C24_FullRedrawTick == [][C24_Step]_vars

\* a full pass painted under a rectangle preview, in a panned view that shows
\* a shape the unpanned view does not
C24_Witness ==
    /\ last.op = "tick"
    /\ PassKinds(painted) = <<"full", "tempRectangle">>
    /\ transform # IdentityTransform
    /\ painted[1].els # <<>>
    /\ painted[1].els #
           IndexQuery(root, VisibleCanvas(IdentityTransform), objs)

\* C25: a tick issues no clear and no paint call and changes no renderer state
\* if and only if the full-redraw flag is unset, no preview forces a full
\* redraw and the dirty-region queue is empty.
C25_Step ==
    last'.op = "tick" =>
        ( ( /\ \A k \in 1..Len(painted') :
                   painted'[k].kind \notin {"full", "region"}
            /\ UNCHANGED <<needsFullRedraw, dirtyRegions, rendererTransform>> )
          <=> ( /\ ~needsFullRedraw
                /\ ~hasTempPreview
                /\ dirtyRegions = <<>> ) )
C25_SkippedTick == [][C25_Step]_vars

\* a tick that painted nothing, shapes in the scene and the view panned
C25_Witness ==
    /\ last.op = "tick"
    /\ painted = <<>>
    /\ SceneRefs # {}
    /\ transform # IdentityTransform

\* the canvas-space rectangle that transform t maps onto a screen rectangle:
\* the inverse images of its corners
CanvasOf(box, t) ==
    LET tl == applyInverseTransform(RPt(Pt(box.x, box.y)), t)
        br == applyInverseTransform(
                  RPt(Pt(box.x + box.width, box.y + box.height)), t)
    IN  WholeBox(Box(tl.x, tl.y, RSub(br.x, tl.x), RSub(br.y, tl.y)))
\* a region grown by 2 screen pixels on each of its four sides
GrownByTwo(r) == Box(r.x - 2, r.y - 2, r.width + 4, r.height + 4)
\* the same with its origin kept from going below 0, its size as grown
GrownClamped(r) ==
    Box(Max2(0, r.x - 2), Max2(0, r.y - 2), r.width + 4, r.height + 4)
PartialTick ==
    /\ last'.op = "tick"
    /\ ~needsFullRedraw
    /\ ~hasTempPreview
    /\ dirtyRegions # <<>>

\* C26 as stated: a partial-repaint tick processes the queued regions in queue
\* order, the clip of each being the region grown by 2 screen pixels on each
\* of its four sides and the shapes painted being query(canvas-space bounds of
\* that clip), and leaves the queue empty.
C26_StepAsStated ==
    PartialTick =>
        /\ painted' =
               [i \in 1..Len(dirtyRegions) |->
                   Pass("region", <<GrownByTwo(dirtyRegions[i])>>,
                        IndexQuery(root,
                                   CanvasOf(GrownByTwo(dirtyRegions[i]),
                                            transform), objs))]
        /\ dirtyRegions' = <<>>
C26_ClipGrownByTwo == [][C26_StepAsStated]_vars

\* C26: a partial-repaint tick processes the queued regions in queue order;
\* the clip of a region (x, y, w, h) is (max(0, x - 2), max(0, y - 2), w + 4,
\* h + 4), which is the region grown by 2 screen pixels on each side when
\* x >= 2 and y >= 2; the shapes painted inside a clip are exactly
\* query(canvas-space bounds of that clip); afterwards the queue is empty and
\* the full-redraw flag still unset.
C26_Step ==
    PartialTick =>
        /\ painted' =
               [i \in 1..Len(dirtyRegions) |->
                   Pass("region", <<GrownClamped(dirtyRegions[i])>>,
                        IndexQuery(root,
                                   CanvasOf(GrownClamped(dirtyRegions[i]),
                                            transform), objs))]
        /\ \A i \in 1..Len(dirtyRegions) :
               (dirtyRegions[i].x >= 2 /\ dirtyRegions[i].y >= 2) =>
                   painted'[i].clip = <<GrownByTwo(dirtyRegions[i])>>
        /\ dirtyRegions' = <<>>
        /\ ~needsFullRedraw'
C26_PartialRepaintTick == [][C26_Step]_vars

\* a partial repaint of two regions in a panned view: the viewport, whose
\* clip starts at 0, then the region of the square added at the canvas
\* origin, grown by 2 on each side, the square painted inside it
C26_Witness ==
    /\ last.op = "tick"
    /\ PassKinds(painted) = <<"region", "region">>
    /\ painted[1].clip = <<Box(0, 0, CanvasWidth + 4, CanvasHeight + 4)>>
    /\ painted[2].clip = <<Box(8, 8, 14, 14)>>
    /\ painted[2].els # <<>>

\* every node of the tree, the root first
RECURSIVE TreeNodes(_)
TreeNodes(node) ==
    IF node.children = <<>> THEN {node}
    ELSE {node} \cup TreeNodes(node.children[1])
                \cup TreeNodes(node.children[2])
                \cup TreeNodes(node.children[3])
                \cup TreeNodes(node.children[4])
IsLeaf(node) == node.children = <<>>

\* C27: after every insert, remove, update, clear and rebuild, every node of
\* the tree is a leaf or has exactly four children (one level deeper) and an
\* empty shape list; every leaf at depth below 5 holds at most 10 shape
\* references; no node is deeper than 5.
C27_NodeInvariant ==
    \A node \in TreeNodes(root) :
        /\ node.depth \in 0..maxDepth
        /\ ~IsLeaf(node) =>
               /\ Len(node.children) = 4
               /\ node.elements = <<>>
               /\ \A i \in 1..4 : node.children[i].depth = node.depth + 1
        /\ (IsLeaf(node) /\ node.depth < 5) => Len(node.elements) <= 10

\* a drag has re-indexed a shape in a tree split down to depth 5, whose
\* deepest leaf holds more than 10 references
C27_Witness ==
    /\ last.op = "move"
    /\ draggedElement # Null
    /\ \E node \in TreeNodes(root) :
           node.depth = maxDepth /\ Len(node.elements) > maxElements

\* what was an internal node is an internal node with the same four child
\* bounds, and so for its children
RECURSIVE Persists(_, _)
Persists(old, new) ==
    IsLeaf(old) \/
        /\ ~IsLeaf(new)
        /\ \A i \in 1..4 :
               /\ new.children[i].bounds = old.children[i].bounds
               /\ Persists(old.children[i], new.children[i])

\* C28: under every insert, remove and update a node that has split stays an
\* internal node with the same four child bounds, its leaves empty or not;
\* a split root becomes a leaf again only by clear() or by rebuild(), clear
\* leaving an empty root leaf and rebuild a root leaf when at most 10 shapes
\* are in the scene.
C28_Step ==
    /\ last'.op \notin {"clear", "resize"} => Persists(root, root')
    /\ (~IsLeaf(root) /\ IsLeaf(root')) => last'.op \in {"clear", "resize"}
    /\ last'.op = "clear" => root' = NewNode(RootBounds, 0)
    /\ (last'.op = "resize" /\ Len(getAll) <= maxElements) => IsLeaf(root')
C28_NoMergeBack == [][C28_Step]_vars

\* every shape removed from a tree that had split: the root is still an
\* internal node and no leaf holds a reference
C28_Witness ==
    /\ last.op = "removeElement"
    /\ ~IsLeaf(root)
    /\ TreeRefs(root) = {}
    /\ SceneRefs = {}
    /\ fillers # {}

\* rectangle `outer` covers rectangle `inner`
Covers(outer, inner) ==
    /\ outer.x <= inner.x
    /\ outer.y <= inner.y
    /\ outer.x + outer.width >= inner.x + inner.width
    /\ outer.y + outer.height >= inner.y + inner.height
Viewport == Box(0, 0, CanvasWidth, CanvasHeight)
\* the next tick clears and repaints all of the viewport: the full-redraw
\* flag is set, or a queued region's clip covers the viewport
WholeViewportMarked(flag, queue) ==
    \/ flag
    \/ \E i \in 1..Len(queue) : Covers(GrownClamped(queue[i]), Viewport)

\* C29: a pan step or a zoom step leaves the scene map, the draw order, every
\* shape (geometry and selected flag), the tree and the state of the
\* InteractionManager as they were, and leaves the renderer marked so that
\* the next tick repaints the whole viewport.
C29_Step ==
    last'.op \in {"wheel", "panMove"} =>
        /\ UNCHANGED <<objs, elements, zIndexOrder, root>>
        /\ UNCHANGED <<imVars, tempPathPoints, tempRectangle, isPanning>>
        /\ WholeViewportMarked(needsFullRedraw', dirtyRegions')
C29_PanZoomFrame == [][C29_Step]_vars

\* a zoom of a painted view whose tree has split and in which a shape is
\* selected: the flag is unset and the queue holds the viewport only
C29_Witness ==
    /\ last.op = "wheel"
    /\ transform # IdentityTransform
    /\ ~needsFullRedraw
    /\ dirtyRegions = <<Viewport>>
    /\ ~IsLeaf(root)
    /\ selectedElement # Null
    /\ objs[selectedElement].selected

\* a box shifted by a delta
ShiftBox(b, d) == Box(b.x + d.x, b.y + d.y, b.width, b.height)

\* C30: a pointer-move handled while a shape is dragged notifies "shape
\* moved" exactly once, with the shape, the delta of the move and the
\* shape's bounding box from before the translation of that move; when the
\* callback runs the shape has been translated and re-indexed: its bounding
\* box is the old one shifted by the delta and query(that box) returns it.
C30_Step ==
    ( /\ last'.op = "move"
      /\ isActive /\ mode = "select"
      /\ draggedElement # Null /\ startPoint # <<>> ) =>
        LET el == draggedElement
            before == getBoundingBox(objs[el])
            delta == Pt(currentPoint'[1].x - startPoint[1].x,
                        currentPoint'[1].y - startPoint[1].y)
        IN  /\ Len(notes') = 1
            /\ notes'[1].kind = "elementMoved"
            /\ notes'[1].el = el
            /\ notes'[1].pts = <<delta>>
            /\ notes'[1].box = <<before>>
            /\ notes'[1].view[1].bounds = ShiftBox(before, delta)
            /\ notes'[1].view[1].found
            /\ getBoundingBox(objs'[el]) = ShiftBox(before, delta)
C30_ShapeMovedOrdering == [][C30_Step]_vars

\* a path dragged by a non-zero delta in a split tree: the notification
\* carries a box that is no longer the path's
C30_Witness ==
    /\ last.op = "move"
    /\ Len(notes) = 1
    /\ notes[1].kind = "elementMoved"
    /\ objs[notes[1].el].type = "path"
    /\ notes[1].box # <<getBoundingBox(objs[notes[1].el])>>
    /\ notes[1].view[1].found
    /\ ~IsLeaf(root)
\* the state a handler leaves when the engine's handling of the notification
\* has run: the preview of the completed drawing is gone, or every scene shape
\* other than the one notified is unselected; and a full redraw is marked
EngineHandled(note) ==
    /\ needsFullRedraw
    /\ note.kind = "pathComplete" => tempPathPoints = <<>>
    /\ note.kind = "rectangleComplete" => tempRectangle = <<>>
    /\ note.kind = "elementSelected" =>
           \A r \in SceneRefs \ {note.el} : ~objs[r].selected

\* C31: a registration through the engine changes the slot of its kind only,
\* and leaves there a callback that runs the engine's handling and then the
\* host function; every notification of a handler reaches exactly the host
\* function last registered for its kind (none for the kinds a host cannot
\* register), after the engine's handling, whose effects the state shows.
C31_Step ==
    last'.op = "register" =>
        \E k \in HostKinds, h \in HostCallbacks :
            /\ registered' = [registered EXCEPT ![k] = h]
            /\ \A j \in NoteKinds \ {k} : callbacks'[j] = callbacks[j]
            /\ RunsEngine(callbacks'[k])
            /\ Heard(callbacks'[k]) = <<[host |-> h, engineDone |-> TRUE]>>
C31_Invoked ==
    \A i \in 1..Len(notes) :
        /\ notes[i].kind \in HostKinds =>
               /\ notes[i].heard = <<[host |-> registered[notes[i].kind],
                                      engineDone |-> TRUE]>>
               /\ EngineHandled(notes[i])
        /\ notes[i].kind \notin HostKinds => notes[i].heard = <<>>
C31_CallbackRegistration == [][C31_Step]_vars /\ []C31_Invoked

\* a second shape picked after the host has registered another
\* selection-changed function: that function is the one reached
C31_Witness ==
    /\ last.op = "down"
    /\ registered["elementSelected"] = OtherCallback
    /\ Len(notes) = 1
    /\ notes[1].kind = "elementSelected"
    /\ notes[1].el = selectedElement
    /\ selectedElement # Null
    /\ notes[1].heard = <<[host |-> OtherCallback, engineDone |-> TRUE]>>
    /\ Cardinality(SceneRefs) = 2

\* C32: a tick that finds a preview (a freehand sequence of more than one
\* point, a rectangle being dragged) paints one full pass with every shape
\* of the viewport and then the previews, whatever the flag and the queue
\* hold; a tick that finds a freehand sequence of one point and no rectangle
\* paints no preview, and no full pass unless the flag is set.
C32_Step ==
    last'.op = "tick" =>
        LET path == tempPathPoints # <<>> /\ Len(tempPathPoints[1]) > 1
            rect == tempRectangle # <<>>
            onePoint == /\ tempPathPoints # <<>>
                        /\ Len(tempPathPoints[1]) = 1
                        /\ ~rect
            previews == (IF path THEN <<"tempPath">> ELSE <<>>)
                            \o (IF rect THEN <<"tempRectangle">> ELSE <<>>)
        IN  /\ (path \/ rect) =>
                   /\ PassKinds(painted') = <<"full">> \o previews
                   /\ painted'[1].els = IndexQuery(root, Viewport, objs)
            /\ onePoint =>
                   /\ \A k \in 1..Len(painted') :
                          painted'[k].kind \notin {"tempPath", "tempRectangle"}
                   /\ ~needsFullRedraw =>
                          \A k \in 1..Len(painted') : painted'[k].kind # "full"
C32_PreviewOrdering == [][C32_Step]_vars

\* a frame of a rectangle drag over a shape of the scene: the shape, then the
\* preview
C32_Witness ==
    /\ last.op = "tick"
    /\ PassKinds(painted) = <<"full", "tempRectangle">>
    /\ painted[1].els # <<>>
    /\ isActive
    /\ mode = "rectangle"

\* C33: every reference a leaf holds is to a shape whose current bounding box
\* meets the leaf's bounds, and a leaf holds no reference twice.
C33_LeafMembership ==
    \A node \in TreeNodes(root) :
        IsLeaf(node) =>
            /\ \A i \in 1..Len(node.elements) :
                   rectsIntersect(node.bounds, BoxOf(node.elements[i]))
            /\ NoDuplicates(node.elements)

\* C34: the shape in the selected slot and the shape in the dragged slot are
\* shapes of the scene, in every state; and a pointer-move adds to the index
\* no reference to a shape that is not in the scene.
C34_Slots ==
    /\ selectedElement # Null => selectedElement \in SceneRefs
    /\ draggedElement # Null => draggedElement \in SceneRefs
C34_Step ==
    last'.op = "move" => TreeRefs(root') \ TreeRefs(root) \subseteq SceneRefs
C34_SelectionLive == []C34_Slots /\ [][C34_Step]_vars

\* C35: in every state at most one shape of the scene has its selected flag
\* set, and a shape of the scene has the flag set if and only if it is the
\* shape in the selected slot; a pointer-down that selects a shape leaves the
\* flag of every other shape of the scene clear.
C35_Flagged == {r \in SceneRefs : objs[r].selected}
C35_Inv ==
    /\ Cardinality(C35_Flagged) <= 1
    /\ \A r \in SceneRefs : objs[r].selected <=> r = selectedElement
C35_Step ==
    (last'.op = "down" /\ selectedElement' # Null
        /\ selectedElement' # selectedElement) =>
        \A r \in SceneRefs \ {selectedElement'} : ~objs'[r].selected
C35_SingleSelection == []C35_Inv /\ [][C35_Step]_vars

\* a second shape selected while the first, selected before it, is still in
\* the scene
C35_Witness ==
    /\ last.op = "down"
    /\ selectedElement # Null
    /\ gest.el = selectedElement
    /\ Cardinality(SceneRefs) = 2
    /\ objs[selectedElement].selected
    /\ \E r \in SceneRefs :
           /\ r # selectedElement
           /\ ~objs[r].selected
           \* it has been dragged, so it was the selected shape before
           /\ getBoundingBox(objs[r]) #
                  getBoundingBox(HostShape(objs[r].id, HostScene[r]))

\* C36: after a mouse-up event has been handled the interaction state
\* machine is inactive and panning is off, whatever the order of the draw,
\* drag and pan gestures; and a pointer-move while no button is down changes
\* nothing of the scene, the interaction state, the engine and the renderer.
C36_Step ==
    /\ (held' # held /\ held' \subseteq held) => ~isActive' /\ ~isPanning'
    /\ (held = {} /\ last'.op \in {"move", "panMove"}) =>
           UNCHANGED <<sceneVars, imVars, engineVars, rendererVars>>
C36_GestureEnd == [][C36_Step]_vars

\* C37: in the state a pointer-up leaves, with the interaction state machine
\* inactive, the engine holds no temporary rectangle and no temporary path of
\* more than one point, whatever pointer events and mode switches came
\* before.
C37_PreviewCleanup ==
    (last.op = "up" /\ ~isActive) =>
        /\ tempRectangle = <<>>
        /\ ~PreviewPath(tempPathPoints)

\* C38: getAll() lists every stored shape exactly once, in the order the
\* shapes were added; the ids of the draw order are exactly the keys of the
\* shape map; and after a remove(id) that found a shape no shape with that
\* id is left in getAll() or in the index.  Ids may be reused.
C38_Stored == {elements[id] : id \in DOMAIN elements}
C38_StoreConsistent ==
    /\ SceneRefs = C38_Stored
    /\ \A i, j \in 1..Len(getAll) : i < j => getAll[i] < getAll[j]
    /\ SeqRange(zIndexOrder) = DOMAIN elements
    /\ Len(zIndexOrder) = Cardinality(DOMAIN elements)
    /\ (last.op = "removeElement" /\ last.ret) =>
           \A r \in SceneRefs \cup TreeRefs(root) : objs[r].id # last.sel

\* C39: addElement, a removeElement that found the shape, clearSelection,
\* setMode, a pointer-down that selects a shape, a drag move, a move that
\* updates a freehand or rectangle preview, a pan step, a zoom step and
\* resize each leave the full-redraw flag set or the dirty queue non-empty;
\* and a tick that finds the flag set or the queue non-empty paints.
C39_Changes ==
    \/ last'.op \in {"addElement", "clearSelection", "setMode", "panMove",
                     "wheel", "resize"}
    \/ last'.op = "removeElement" /\ last'.ret
    \/ last'.op = "down" /\ mode = "select" /\ selectedElement' # Null
    \/ /\ last'.op = "move"
       /\ \E i \in 1..Len(notes') :
              notes'[i].kind \in {"elementMoved", "pathDrawing",
                                 "rectangleDrawing"}
C39_Step ==
    /\ C39_Changes => needsFullRedraw' \/ dirtyRegions' # <<>>
    /\ (last'.op = "tick" /\ (needsFullRedraw \/ dirtyRegions # <<>>)) =>
           painted' # <<>>
C39_DirtyResponse == [][C39_Step]_vars

\* a shape selected by a pointer-down right after a tick has emptied the
\* queue and cleared the flag
C39_Witness ==
    /\ last.op = "down"
    /\ selectedElement # Null
    /\ needsFullRedraw
    /\ dirtyRegions = <<>>

\* the greatest depth of a node that insert(e) is invoked on, the
\* redistribution of a split included
Greatest(S) == CHOOSE n \in S : \A m \in S : m <= n
RECURSIVE InsertReach(_, _, _)
InsertReach(node, e, O) ==
    IF InsertRejects(node.bounds, getBoundingBox(O[e])) THEN node.depth
    ELSE IF node.children # <<>>
    THEN Greatest({InsertReach(node.children[i], e, O) : i \in 1..4})
    ELSE LET els == Append(node.elements, e)
         IN  IF MustSplit(Len(els), node.depth)
             THEN Greatest({InsertReach(
                                NodeInsertAll(split(node)[i],
                                              SubSeq(els, 1, j - 1), O),
                                els[j], O) : i \in 1..4, j \in 1..Len(els)})
             ELSE node.depth

\* C40: insert(shape) ends, also with more than 10 shapes of the same bounds
\* and with shapes that cover the whole root: no call of insert goes to a
\* node deeper than 5, no node at depth 5 has children, and a leaf at depth
\* 5 that the shape meets takes the reference without splitting, however
\* many it holds.
C40_Tree ==
    \A node \in TreeNodes(root) :
        /\ node.depth <= maxDepth
        /\ node.depth = maxDepth => IsLeaf(node)
C40_Step ==
    (last'.op = "addElement" /\ Len(objs') = Len(objs) + 1) =>
        LET e == Len(objs')
        IN  /\ InsertReach(root, e, objs') <= maxDepth
            /\ \A n \in TreeNodes(root) :
                   ( /\ n.depth = maxDepth
                     /\ rectsIntersect(n.bounds, getBoundingBox(objs'[e])) )
                       => \E m \in TreeNodes(root') :
                              /\ m.bounds = n.bounds
                              /\ IsLeaf(m)
                              /\ m.elements = Append(n.elements, e)
C40_InsertTerminates == [][C40_Step]_vars /\ []C40_Tree

\* a shape that covers the root added to a tree that more than 10 such
\* shapes have split down to depth 5 everywhere: every leaf takes it
C40_Witness ==
    /\ last.op = "addElement"
    /\ BoxOf(Len(objs)) = RootBounds
    /\ \A node \in TreeNodes(root) :
           /\ node.depth < maxDepth => ~IsLeaf(node)
           /\ node.depth = maxDepth =>
                  /\ Len(node.elements) > maxElements + 1
                  /\ node.elements[Len(node.elements)] = Len(objs)

====
